---- MODULE Spec2Model ----
(***************************************************************************)
(* Environment records and the lexical environment                         *)
(* (src/src/environment.js), the parser wrapper (src/src/utils/parse.js)   *)
(* and the for-in evaluator with the generators                            *)
(* (src/src/evaluators/ForInStatement.js) of the partial evaluator, as     *)
(* state machines.                                                         *)
(*                                                                         *)
(* SpecEnv    : one function environment record (a declarative record plus *)
(*              the this-binding), driven by the record operations, inside *)
(*              and outside a speculative evaluation.                      *)
(* SpecForIn  : the for-in statement evaluator over a small object heap.   *)
(* SpecGen    : Generator, NameGenerator and PreludeGenerator.             *)
(* SpecLex    : LexicalEnvironment (parse, evaluate, execute) over the     *)
(*              realm's context stack.                                     *)
(* SpecGlobal : the global environment record over its declarative record, *)
(*              the global object and the var names.                       *)
(***************************************************************************)
EXTENDS Integers, Sequences, FiniteSets, TLC

\* ------------------------------------------------------------------------
\* Bounds and small input sets
\* ------------------------------------------------------------------------
MaxOps == 4

Names == {"a", "b"}
Values == {"v1", "v2"}
Undefined == "undefined"
Empty == "empty"

VARIABLES
    bindings,       \* DeclarativeEnvironmentRecord.bindings: name -> binding object
    heap,           \* the binding objects ever allocated, by identity
    modLog,         \* the realm's modification log
    ThisBindingStatus,  \* FunctionEnvironmentRecord.$ThisBindingStatus
    ThisValue,      \* FunctionEnvironmentRecord.$ThisValue
    speculating,    \* inside evaluateNodeForEffects
    saved,          \* the environment state when the speculative evaluation began
    stored,         \* per binding object: the value last stored in it
    last,           \* the operation performed last and how it completed
    nops            \* the number of operations performed so far

envVars == <<bindings, heap, modLog, ThisBindingStatus, ThisValue, speculating,
             saved, stored, last, nops>>

\* The state of the for-in evaluator
VARIABLES
    objs,               \* the heap: per object its simple and partial bits and known properties
    genBody,            \* realm.generator.body
    diagnostics,        \* what realm.handleError was called with, in order
    lexicalEnvironment, \* the running execution context's lexicalEnvironment
    flast,              \* the for-in statement evaluated last and how it completed
    nstmts              \* the number of statements evaluated so far

forVars == <<objs, genBody, diagnostics, lexicalEnvironment, flast, nstmts>>

\* The state of the generators
VARIABLES
    generator,          \* a Generator: its body
    preludeGenerator,   \* the realm's PreludeGenerator, with its nameGenerator
    abstracts,          \* the abstract values realm.createAbstract made, by identity
    issued,             \* every identifier nameGenerator.generate returned, in order
    glast,              \* the generator operation performed last and what it returned
    ngops               \* the number of generator operations performed so far

genVars == <<generator, preludeGenerator, abstracts, issued, glast, ngops>>

\* The state of the realm that LexicalEnvironment works on
VARIABLES
    contextStack,       \* realm.contextStack: the execution contexts, the running one last
    currentLocation,    \* realm.currentLocation
    handled,            \* what the realm's error handler was given, in order
    contexts,           \* the number of ExecutionContext objects constructed so far
    llast,              \* the LexicalEnvironment operation performed last and how it left
    nlops               \* the number of LexicalEnvironment operations performed so far

lexVars == <<contextStack, currentLocation, handled, contexts, llast, nlops>>

\* The state of the global environment record
VARIABLES
    DeclarativeRecord,  \* GlobalEnvironmentRecord.$DeclarativeRecord
    globalObject,       \* GlobalEnvironmentRecord.$ObjectRecord.object: its own properties
    VarNames,           \* GlobalEnvironmentRecord.$VarNames
    xlast,              \* the global-record operation performed last and how it completed
    nxops               \* the number of global-record operations performed so far

globVars == <<DeclarativeRecord, globalObject, VarNames, xlast, nxops>>

\* ------------------------------------------------------------------------
\* Environment records
\* ------------------------------------------------------------------------

\* The record state the operations work on.
EnvState ==
    [bindings |-> bindings, heap |-> heap, modLog |-> modLog,
     ThisBindingStatus |-> ThisBindingStatus, ThisValue |-> ThisValue]

Completion(st, outcome, ret) == [st |-> st, outcome |-> outcome, ret |-> ret]

\* type Binding = { value?, initialized?, mutable?, deletable? } (and strict)
Binding(initialized, mutable, deletable, strict) ==
    [value |-> Undefined, initialized |-> initialized, mutable |-> mutable,
     deletable |-> deletable, strict |-> strict]

\* realm.recordModifiedBinding(binding, envRec): appends (binding, prior
\* snapshot) to the modification log and returns the binding.
recordModifiedBinding(st, id) ==
    [st EXCEPT !.modLog = Append(@, [binding |-> id, prior |-> st.heap[id]])]

\* ECMA262 8.1.1.1.1
HasBinding(st, N) == N \in DOMAIN st.bindings

\* this.bindings[N] = <binding object>
PutBinding(b, N, id) == [x \in (DOMAIN b) \cup {N} |-> IF x = N THEN id ELSE b[x]]

\* delete envRec.bindings[N]
RemoveBinding(b, N) == [x \in (DOMAIN b) \ {N} |-> b[x]]

\* ECMA262 8.1.1.1.2
CreateMutableBinding(st, N, D) ==
    IF HasBinding(st, N)
    THEN Completion(st, "InvariantViolation", Undefined)
    ELSE LET id == Len(st.heap) + 1
             s1 == [st EXCEPT !.heap = Append(@, Binding(FALSE, TRUE, D, FALSE))]
             s2 == recordModifiedBinding(s1, id)
             s3 == [s2 EXCEPT !.bindings = PutBinding(@, N, id)]
         IN  Completion(s3, "normal", Undefined)

\* ECMA262 8.1.1.1.3
CreateImmutableBinding(st, N, S) ==
    IF HasBinding(st, N)
    THEN Completion(st, "InvariantViolation", Undefined)
    ELSE LET id == Len(st.heap) + 1
             s1 == [st EXCEPT !.heap = Append(@, Binding(FALSE, FALSE, FALSE, S))]
             s2 == recordModifiedBinding(s1, id)
             s3 == [s2 EXCEPT !.bindings = PutBinding(@, N, id)]
         IN  Completion(s3, "normal", Undefined)

InitializeBinding_Again(st, N, V) ==
    IF ~HasBinding(st, N)
    THEN Completion(st, "InvariantViolation", Undefined)
    ELSE LET id == st.bindings[N]
             s1 == recordModifiedBinding(st, id)
             s2 == [s1 EXCEPT !.heap[id].value = V]
             s3 == [s2 EXCEPT !.heap[id].initialized = TRUE]
         IN  Completion(s3, "normal", Empty)

InitializeBinding_NoRecord(st, N, V) ==
    IF ~HasBinding(st, N) \/ st.heap[st.bindings[N]].initialized
    THEN Completion(st, "InvariantViolation", Undefined)
    ELSE LET id == st.bindings[N]
             s2 == [st EXCEPT !.heap[id].value = V]
             s3 == [s2 EXCEPT !.heap[id].initialized = TRUE]
         IN  Completion(s3, "normal", Empty)

InitializeBinding_NoValue(st, N, V) ==
    IF ~HasBinding(st, N) \/ st.heap[st.bindings[N]].initialized
    THEN Completion(st, "InvariantViolation", Undefined)
    ELSE LET id == st.bindings[N]
             s1 == recordModifiedBinding(st, id)
             s3 == [s1 EXCEPT !.heap[id].initialized = TRUE]
         IN  Completion(s3, "normal", Empty)

\* ECMA262 8.1.1.1.4
InitializeBinding(st, N, V) ==
    IF ~HasBinding(st, N) \/ st.heap[st.bindings[N]].initialized
    THEN Completion(st, "InvariantViolation", Undefined)
    ELSE LET id == st.bindings[N]
             s1 == recordModifiedBinding(st, id)
             s2 == [s1 EXCEPT !.heap[id].value = V]
             s3 == [s2 EXCEPT !.heap[id].initialized = TRUE]
         IN  Completion(s3, "normal", Empty)

SetExistingBinding_CallerStrictOnly(st, N, V, S) ==
    LET id == st.bindings[N]
        binding == st.heap[id]
    IN  IF ~binding.initialized
        THEN Completion(st, "ReferenceError", Undefined)
        ELSE IF binding.mutable
        THEN Completion([recordModifiedBinding(st, id) EXCEPT !.heap[id].value = V],
                        "normal", Empty)
        ELSE IF S
        THEN Completion(st, "TypeError", Undefined)
        ELSE Completion(st, "normal", Empty)

\* The part of SetMutableBinding that runs when the record has a binding for N.
SetExistingBinding(st, N, V, S) ==
    LET id == st.bindings[N]
        binding == st.heap[id]
        S1 == IF binding.strict THEN TRUE ELSE S
    IN  IF ~binding.initialized
        THEN Completion(st, "ReferenceError", Undefined)
        ELSE IF binding.mutable
        THEN Completion([recordModifiedBinding(st, id) EXCEPT !.heap[id].value = V],
                        "normal", Empty)
        ELSE IF S1
        THEN Completion(st, "TypeError", Undefined)
        ELSE Completion(st, "normal", Empty)

SetMutableBinding_IgnoreStrict(st, N, V, S) ==
    IF ~HasBinding(st, N)
    THEN LET c1 == CreateMutableBinding(st, N, TRUE)
             c2 == InitializeBinding(c1.st, N, V)
         IN  Completion(c2.st, "normal", Empty)
    ELSE SetExistingBinding(st, N, V, S)

SetMutableBinding_NotDeletable(st, N, V, S) ==
    IF ~HasBinding(st, N)
    THEN IF S
         THEN Completion(st, "ReferenceError", Undefined)
         ELSE LET c1 == CreateMutableBinding(st, N, FALSE)
                  c2 == InitializeBinding(c1.st, N, V)
              IN  Completion(c2.st, "normal", Empty)
    ELSE SetExistingBinding(st, N, V, S)

\* ECMA262 8.1.1.1.5
SetMutableBinding(st, N, V, S) ==
    IF ~HasBinding(st, N)
    THEN IF S
         THEN Completion(st, "ReferenceError", Undefined)
         ELSE LET c1 == CreateMutableBinding(st, N, TRUE)
                  c2 == InitializeBinding(c1.st, N, V)
              IN  Completion(c2.st, "normal", Empty)
    ELSE SetExistingBinding(st, N, V, S)

GetBindingValue_UndefinedWhenSloppy(st, N, S) ==
    IF ~HasBinding(st, N)
    THEN Completion(st, "InvariantViolation", Undefined)
    ELSE LET binding == st.heap[st.bindings[N]]
         IN  IF ~binding.initialized
             THEN IF S THEN Completion(st, "ReferenceError", Undefined)
                       ELSE Completion(st, "normal", Undefined)
             ELSE IF binding.value = Undefined
             THEN Completion(st, "InvariantViolation", Undefined)
             ELSE Completion(st, "normal", binding.value)

\* ECMA262 8.1.1.1.6
GetBindingValue(st, N, S) ==
    IF ~HasBinding(st, N)
    THEN Completion(st, "InvariantViolation", Undefined)
    ELSE LET binding == st.heap[st.bindings[N]]
         IN  IF ~binding.initialized
             THEN Completion(st, "ReferenceError", Undefined)
             ELSE IF binding.value = Undefined
             THEN Completion(st, "InvariantViolation", Undefined)
             ELSE Completion(st, "normal", binding.value)

DeleteBinding_Any(st, N) ==
    IF ~HasBinding(st, N)
    THEN Completion(st, "InvariantViolation", Undefined)
    ELSE LET id == st.bindings[N]
             s1 == recordModifiedBinding(st, id)
             s2 == [s1 EXCEPT !.heap[id].value = Undefined]
             s3 == [s2 EXCEPT !.bindings = RemoveBinding(@, N)]
         IN  Completion(s3, "normal", TRUE)

\* ECMA262 8.1.1.1.7
DeleteBinding(st, N) ==
    IF ~HasBinding(st, N)
    THEN Completion(st, "InvariantViolation", Undefined)
    ELSE LET id == st.bindings[N]
         IN  IF ~st.heap[id].deletable
             THEN Completion(st, "normal", FALSE)
             ELSE LET s1 == recordModifiedBinding(st, id)
                      s2 == [s1 EXCEPT !.heap[id].value = Undefined]
                      s3 == [s2 EXCEPT !.bindings = RemoveBinding(@, N)]
                  IN  Completion(s3, "normal", TRUE)

BindThisValue_Rebinds(st, V) ==
    IF st.ThisBindingStatus = "lexical"
    THEN Completion(st, "InvariantViolation", Undefined)
    ELSE Completion([st EXCEPT !.ThisValue = V, !.ThisBindingStatus = "initialized"],
                    "normal", V)

\* ECMA262 8.1.1.3.1
BindThisValue(st, V) ==
    IF st.ThisBindingStatus = "lexical"
    THEN Completion(st, "InvariantViolation", Undefined)
    ELSE IF st.ThisBindingStatus = "initialized"
    THEN Completion(st, "ReferenceError", Undefined)
    ELSE Completion([st EXCEPT !.ThisValue = V, !.ThisBindingStatus = "initialized"],
                    "normal", V)

\* ECMA262 8.1.1.3.4
GetThisBinding(st) ==
    IF st.ThisBindingStatus = "lexical"
    THEN Completion(st, "InvariantViolation", Undefined)
    ELSE IF st.ThisBindingStatus = "uninitialized"
    THEN Completion(st, "ReferenceError", Undefined)
    ELSE Completion(st, "normal", st.ThisValue)

\* ------------------------------------------------------------------------
\* Speculative evaluation: realm.evaluateNodeForEffects and the rollback
\* ------------------------------------------------------------------------

\* What a caller can observe of the record: the binding map with each
\* binding's flags and value, and the this-binding.
Observable(st) ==
    [bindings |-> [N \in DOMAIN st.bindings |-> st.heap[st.bindings[N]]],
     ThisBindingStatus |-> st.ThisBindingStatus,
     ThisValue |-> st.ThisValue]

\* Replays the log in reverse: each entry puts its prior snapshot back into
\* the binding it names.
RECURSIVE restoreBindings(_, _)
restoreBindings(h, log) ==
    IF log = <<>> THEN h
    ELSE LET e == log[Len(log)]
         IN  restoreBindings([h EXCEPT ![e.binding] = e.prior], SubSeq(log, 1, Len(log) - 1))

NoSnapshot == [obs |-> Observable([bindings |-> <<>>, heap |-> <<>>,
                                   ThisBindingStatus |-> "lexical", ThisValue |-> Undefined]),
               stored |-> <<>>]

NoOp == [op |-> "none", N |-> "", V |-> Undefined, S |-> FALSE,
         outcome |-> "normal", ret |-> Undefined]

Op(op, N, V, S, c) == [op |-> op, N |-> N, V |-> V, S |-> S, outcome |-> c.outcome, ret |-> c.ret]

\* Installs the state an operation produced.
Install(c, newStored, op) ==
    /\ nops' = nops + 1
    /\ UNCHANGED <<forVars, genVars, lexVars, globVars>>
    /\ bindings' = c.st.bindings
    /\ heap' = c.st.heap
    /\ modLog' = c.st.modLog
    /\ ThisBindingStatus' = c.st.ThisBindingStatus
    /\ ThisValue' = c.st.ThisValue
    /\ stored' = newStored
    /\ last' = op
    /\ UNCHANGED <<speculating, saved>>

\* stored, extended to the binding objects that c created
Grown(c) == [id \in 1..Len(c.st.heap) |-> IF id <= Len(stored) THEN stored[id] ELSE Undefined]

DoCreateMutableBinding ==
    /\ nops < MaxOps
    /\ \E N \in Names, D \in BOOLEAN :
        \E c \in {CreateMutableBinding(EnvState, N, D)} :
            Install(c, Grown(c), Op("CreateMutableBinding", N, Undefined, D, c))

DoCreateImmutableBinding ==
    /\ nops < MaxOps
    /\ \E N \in Names, S \in BOOLEAN :
        \E c \in {CreateImmutableBinding(EnvState, N, S)} :
            Install(c, Grown(c), Op("CreateImmutableBinding", N, Undefined, S, c))

DoInitializeBinding ==
    /\ nops < MaxOps
    /\ \E N \in Names, V \in Values :
        \E c \in {InitializeBinding(EnvState, N, V)} :
            Install(c,
                    IF c.outcome = "normal" THEN [stored EXCEPT ![bindings[N]] = V] ELSE stored,
                    Op("InitializeBinding", N, V, FALSE, c))

DoSetMutableBinding ==
    /\ nops < MaxOps
    /\ \E N \in Names, V \in Values, S \in BOOLEAN :
        \E c \in {SetMutableBinding(EnvState, N, V, S)} :
        LET wrote == /\ c.outcome = "normal"
                     /\ HasBinding(c.st, N)
                     /\ c.st.heap[c.st.bindings[N]].mutable
        IN  Install(c,
                    IF wrote THEN [Grown(c) EXCEPT ![c.st.bindings[N]] = V] ELSE Grown(c),
                    Op("SetMutableBinding", N, V, S, c))

DoGetBindingValue ==
    /\ nops < MaxOps
    /\ \E N \in Names, S \in BOOLEAN :
        \E c \in {GetBindingValue(EnvState, N, S)} :
            Install(c, stored, Op("GetBindingValue", N, Undefined, S, c))

DoDeleteBinding ==
    /\ nops < MaxOps
    /\ \E N \in Names :
        \E c \in {DeleteBinding(EnvState, N)} :
            Install(c, stored, Op("DeleteBinding", N, Undefined, FALSE, c))

DoBindThisValue ==
    /\ nops < MaxOps
    /\ \E V \in Values :
        \E c \in {BindThisValue(EnvState, V)} :
            Install(c, stored, Op("BindThisValue", "", V, FALSE, c))

DoGetThisBinding ==
    /\ nops < MaxOps
    /\ \E c \in {GetThisBinding(EnvState)} :
        Install(c, stored, Op("GetThisBinding", "", Undefined, FALSE, c))

\* evaluateNodeForEffects opens a fresh effect-capture frame.
BeginSpeculation ==
    /\ UNCHANGED <<forVars, genVars, lexVars, globVars>>
    /\ nops < MaxOps
    /\ nops' = nops + 1
    /\ ~speculating
    /\ speculating' = TRUE
    /\ saved' = [obs |-> Observable(EnvState), stored |-> stored]
    /\ modLog' = <<>>
    /\ last' = [NoOp EXCEPT !.op = "evaluateNodeForEffects"]
    /\ UNCHANGED <<bindings, heap, ThisBindingStatus, ThisValue, stored>>

\* The caller keeps the result: the frame's effects stay.
CommitSpeculation ==
    /\ UNCHANGED <<forVars, genVars, lexVars, globVars>>
    /\ nops < MaxOps
    /\ nops' = nops + 1
    /\ speculating
    /\ speculating' = FALSE
    /\ modLog' = <<>>
    /\ saved' = NoSnapshot
    /\ last' = [NoOp EXCEPT !.op = "commit"]
    /\ UNCHANGED <<bindings, heap, ThisBindingStatus, ThisValue, stored>>

\* The caller discards the result: the log is replayed in reverse.
DiscardSpeculation ==
    /\ UNCHANGED <<forVars, genVars, lexVars, globVars>>
    /\ nops < MaxOps
    /\ nops' = nops + 1
    /\ speculating
    /\ speculating' = FALSE
    /\ heap' = restoreBindings(heap, modLog)
    /\ modLog' = <<>>
    /\ stored' = [id \in 1..Len(heap) |->
                    IF id <= Len(saved.stored) THEN saved.stored[id] ELSE Undefined]
    /\ last' = [NoOp EXCEPT !.op = "discard"]
    /\ UNCHANGED <<bindings, ThisBindingStatus, ThisValue, saved>>

EnvInit ==
    /\ bindings = <<>>
    /\ heap = <<>>
    /\ modLog = <<>>
    /\ ThisBindingStatus \in {"lexical", "uninitialized"}
    /\ ThisValue = Undefined
    /\ speculating = FALSE
    /\ saved = NoSnapshot
    /\ stored = <<>>
    /\ last = NoOp
    /\ nops = 0

EnvNext ==
    \/ DoCreateMutableBinding
    \/ DoCreateImmutableBinding
    \/ DoInitializeBinding
    \/ DoSetMutableBinding
    \/ DoGetBindingValue
    \/ DoDeleteBinding
    \/ DoBindThisValue
    \/ DoGetThisBinding
    \/ BeginSpeculation
    \/ CommitSpeculation
    \/ DiscardSpeculation

\* ------------------------------------------------------------------------
\* The for-in statement
\* ------------------------------------------------------------------------
MaxStmts == 1

Objects == {"o1", "o2"}
Keys == <<"x", "y">>
Absent == "absent"
absStr == "absStr"
otherStr == "otherStr"

ForState ==
    [objs |-> objs, genBody |-> genBody, diagnostics |-> diagnostics,
     lexicalEnvironment |-> lexicalEnvironment]

\* The value of the iterated expression, as ForInOfHeadEvaluation returns it:
\* an ObjectValue, or an AbstractObjectValue with a finite or top values domain.
KeyResults ==
    {[abstract |-> FALSE, top |-> FALSE, elems |-> {"o1"}],
     [abstract |-> TRUE, top |-> FALSE, elems |-> {"o1"}],
     [abstract |-> TRUE, top |-> FALSE, elems |-> Objects],
     [abstract |-> TRUE, top |-> TRUE, elems |-> {}]}

\* for (var k in ..), for (var [k, j] in ..), for (let k in ..), for (k in ..)
Heads == {"var", "varPattern", "let", "lhs"}

BoundNames(head) == IF head = "varPattern" THEN <<"k", "j">> ELSE <<"k">>

\* Loop bodies: t[k] = s[k]; t.x = s[k]; t[k] = s[j]; t[k] = c; {}; console.log(k);
\* v = k; break; { 1; break; }; break L; throw e
OtherBodyKinds == {"named", "otherKey", "const", "empty", "log", "assign",
                   "break", "breakValue", "breakLabel", "throw"}

Bodies ==
    {[kind |-> "copy", target |-> t, source |-> s] : t \in Objects, s \in Objects}
    \cup {[kind |-> k, target |-> "o2", source |-> "o1"] : k \in OtherBodyKinds}

isPartialObject(st, v) == ~v.top /\ \A o \in v.elems : st.objs[o].partial

isSimpleObject(st, v) == ~v.top /\ \A o \in v.elems : st.objs[o].simple

KnownKeys(st, o) == SelectSeq(Keys, LAMBDA k : st.objs[o].props[k] # Absent)

Outcome(st, outcome, value, evaluated, accepted) ==
    [st |-> st, outcome |-> outcome, value |-> value, evaluated |-> evaluated,
     accepted |-> accepted]

\* AbstractValue.reportIntrospectionError followed by throw new FatalError()
IntrospectionError(st, evaluated) ==
    Outcome([st EXCEPT !.diagnostics =
                Append(@, [code |-> "introspection", severity |-> "FatalError", loc |-> "body"])],
            "FatalError", Undefined, evaluated, FALSE)

reportError_Recoverable(st, loc, evaluated) ==
    Outcome([st EXCEPT !.diagnostics =
                Append(@, [code |-> "PP0013", severity |-> "RecoverableError", loc |-> loc])],
            "FatalError", Undefined, evaluated, FALSE)

\* helper func to report error
reportError(st, loc, evaluated) ==
    Outcome([st EXCEPT !.diagnostics =
                Append(@, [code |-> "PP0013", severity |-> "FatalError", loc |-> loc])],
            "FatalError", Undefined, evaluated, FALSE)

\* The value of s[key] for an abstract key on a simple object s: one
\* "check for known property" conditional per known property, around the
\* sentinel member expression when s is partial.
MemberChain(st, s, key) ==
    [i \in 1..Len(KnownKeys(st, s)) |->
        [kind |-> "conditional", base |-> Undefined, key |-> Undefined,
         condKind |-> "check for known property", condArg |-> key]]
    \o (IF st.objs[s].partial
        THEN <<[kind |-> "sentinel member expression", base |-> s, key |-> key,
                condKind |-> Undefined, condArg |-> Undefined]>>
        ELSE <<>>)

\* The descriptor value a write through an abstract key leaves in the
\* target's unknownProperty: (template condition ? V : undefined).
Joined(chain) ==
    [abstract |-> TRUE, condKind |-> "template for property name condition",
     thirdUndefined |-> TRUE, chain |-> chain]

Written(object, unknown, value) == [object |-> object, unknown |-> unknown, value |-> value]

Effects(compl, genEmpty, nbindings, properties) ==
    [compl |-> compl, genEmpty |-> genEmpty, nbindings |-> nbindings,
     properties |-> properties, createdObj |-> 0]

evaluateNodeForEffects_AnyTarget(st, body) ==
    LET t == body.target
        s == body.source
    IN  CASE body.kind = "copy" ->
                IF ~st.objs[s].simple
                THEN Effects("FatalError", TRUE, 0, <<>>)
                ELSE Effects("Value", TRUE, 0,
                             <<Written(t, TRUE, Joined(MemberChain(st, s, absStr)))>>)
          [] OTHER -> Effects("Value", TRUE, 0, <<>>)

\* realm.evaluateNodeForEffects(body, strictCode, blockEnv): what evaluating
\* the body would do, without doing it.
evaluateNodeForEffects(st, body) ==
    LET t == body.target
        s == body.source
    IN  CASE body.kind = "copy" ->
                IF ~st.objs[s].simple \/ ~st.objs[t].simple
                THEN Effects("FatalError", TRUE, 0, <<>>)
                ELSE Effects("Value", TRUE, 0,
                             <<Written(t, TRUE, Joined(MemberChain(st, s, absStr)))>>)
          [] body.kind = "named" ->
                IF ~st.objs[s].simple
                THEN Effects("FatalError", TRUE, 0, <<>>)
                ELSE Effects("Value", TRUE, 0,
                             <<Written(t, FALSE, Joined(MemberChain(st, s, absStr)))>>)
          [] body.kind = "otherKey" ->
                IF ~st.objs[s].simple \/ ~st.objs[t].simple
                THEN Effects("FatalError", TRUE, 0, <<>>)
                ELSE Effects("Value", TRUE, 0,
                             <<Written(t, TRUE, Joined(MemberChain(st, s, otherStr)))>>)
          [] body.kind = "const" ->
                IF ~st.objs[t].simple
                THEN Effects("FatalError", TRUE, 0, <<>>)
                ELSE Effects("Value", TRUE, 0, <<Written(t, TRUE, Joined(<<>>))>>)
          [] body.kind = "empty" -> Effects("Value", TRUE, 0, <<>>)
          [] body.kind = "log" -> Effects("Value", FALSE, 0, <<>>)
          [] body.kind = "assign" -> Effects("Value", TRUE, 1, <<>>)
          [] body.kind \in {"break", "breakValue", "breakLabel"} ->
                Effects("BreakCompletion", TRUE, 0, <<>>)
          [] body.kind = "throw" -> Effects("ThrowCompletion", TRUE, 0, <<>>)

RECURSIVE FindSource_AnyKey(_, _)
FindSource_AnyKey(chain, i) ==
    IF i > Len(chain) THEN Undefined
    ELSE IF chain[i].kind = "sentinel member expression" /\ chain[i].base \in Objects
    THEN chain[i].base
    ELSE IF chain[i].condKind = "check for known property"
    THEN FindSource_AnyKey(chain, i + 1)
    ELSE Undefined

\* The while loop over mem (lines 164-184): skips the tests of absStr against
\* known properties and stops at an expression sourceObject[absStr].
RECURSIVE FindSource(_, _)
FindSource(chain, i) ==
    IF i > Len(chain) THEN Undefined
    ELSE IF /\ chain[i].kind = "sentinel member expression"
            /\ chain[i].base \in Objects
            /\ chain[i].key = absStr
    THEN chain[i].base
    ELSE IF chain[i].condKind = "check for known property" /\ chain[i].condArg = absStr
    THEN FindSource(chain, i + 1)
    ELSE Undefined

\* properties.forEach(...) (lines 151-188) for the single modified property
TargetOf(w) == IF w.unknown THEN w.object ELSE Undefined

SourceOf(w) ==
    IF w.unknown /\ w.value.abstract /\ w.value.thirdUndefined
    THEN FindSource(w.value.chain, 1)
    ELSE Undefined

\* o (lines 190-193): the iterated object, the single element of an abstract
\* object's values domain standing in for it
IteratedObject(ob) ==
    IF Cardinality(ob.elems) = 1 /\ ~ob.top
    THEN CHOOSE o \in ob.elems : TRUE
    ELSE "abstract"

RECURSIVE CopyKnown_FirstOnly(_, _, _, _)
CopyKnown_FirstOnly(o, t, src, keys) ==
    IF keys = <<>> THEN o
    ELSE [o EXCEPT ![t].props[Head(keys)] = src.props[Head(keys)]]

\* targetObject.$Set(key, val, targetObject) for every known key/value pair
\* of the source (lines 206-214)
RECURSIVE CopyKnown(_, _, _, _)
CopyKnown(o, t, src, keys) ==
    IF keys = <<>> THEN o
    ELSE CopyKnown([o EXCEPT ![t].props[Head(keys)] = src.props[Head(keys)]],
                   t, src, Tail(keys))

ForInEntry(o, t, s) == [kind |-> "forIn", args |-> <<o, t, s, t, s>>]

\* A property value that might have been deleted.
MaybeDeleted == "maybeDeleted"

\* EnumerableOwnProperties(realm, O, "key+value"): the keys of the enumerable
\* own properties; it raises when the value of one might have been deleted
EnumerableOwnProperties(st, O) ==
    IF \E i \in 1..Len(Keys) : st.objs[O].props[Keys[i]] = MaybeDeleted
    THEN [ok |-> FALSE, keys |-> <<>>]
    ELSE [ok |-> TRUE, keys |-> KnownKeys(st, O)]

\* lines 196-214: the known enumerable properties of the source become
\* known properties of the target
CopyFromSource(st, t, s) ==
    LET notPartial == [st EXCEPT !.objs[s].partial = FALSE]
        keyValPairs == EnumerableOwnProperties(notPartial, s)
        partialAgain == [notPartial EXCEPT !.objs[s].partial = TRUE]
    IN  IF ~keyValPairs.ok THEN IntrospectionError(notPartial, 1)
        ELSE Outcome([partialAgain EXCEPT
                         !.objs = CopyKnown(@, t, partialAgain.objs[s], keyValPairs.keys)],
                     "Value", Undefined, 1, FALSE)

\* lines 189-238: the loop is accepted
AcceptLoop(st, ob, t, s) ==
    LET o == IteratedObject(ob)
        s1 == [st EXCEPT !.objs[t].simple = TRUE, !.objs[t].partial = TRUE]
    IN  IF s = o /\ ~s1.objs[s].partial
        THEN Outcome(s1, "InvariantViolation", Undefined, 1, FALSE)
        ELSE LET copied == IF s = o THEN CopyFromSource(s1, t, s)
                           ELSE Outcome(s1, "Value", Undefined, 1, FALSE)
                 s3 == [copied.st EXCEPT !.genBody = Append(@, ForInEntry(o, t, s))]
             IN  IF copied.outcome # "Value" THEN copied
                 ELSE Outcome(s3, "Value", Undefined, 1, TRUE)

\* NewDeclarativeEnvironment(realm, E): a new environment inside E
NewDeclarativeEnvironment(E) == Append(E, [names |-> <<>>])

\* the loop over BoundNames(realm, lh) (lines 139-145): boundName must be
\* undefined when a name comes; the name is bound in blockEnv's record
RECURSIVE BindBoundNames(_, _, _)
BindBoundNames(st, names, boundName) ==
    IF names = <<>> THEN [st |-> st, boundName |-> boundName, ok |-> TRUE]
    ELSE IF boundName # Undefined THEN [st |-> st, boundName |-> boundName, ok |-> FALSE]
    ELSE LET n == Len(st.lexicalEnvironment)
         IN  BindBoundNames([st EXCEPT !.lexicalEnvironment[n].names = Append(@, Head(names))],
                            Tail(names), Head(names))

emitResidualLoopTry_MarksTarget(st, head, ob, body) ==
    LET bound == BindBoundNames(st, BoundNames(head), Undefined)
        e == evaluateNodeForEffects(bound.st, body)
    IN  IF ~bound.ok THEN Outcome(bound.st, "InvariantViolation", Undefined, 0, FALSE)
        ELSE IF e.compl = "FatalError" THEN IntrospectionError(bound.st, 1)
        ELSE IF /\ e.compl = "Value" /\ e.genEmpty /\ e.nbindings = 0
                /\ Len(e.properties) = 1
        THEN LET w == e.properties[1]
             IN  IF TargetOf(w) \in Objects
                 THEN IF SourceOf(w) # Undefined
                      THEN AcceptLoop(bound.st, ob, TargetOf(w), SourceOf(w))
                      ELSE Outcome([bound.st EXCEPT !.objs[TargetOf(w)].simple = TRUE,
                                                    !.objs[TargetOf(w)].partial = TRUE],
                                   "rejected", Undefined, 1, FALSE)
                 ELSE Outcome(bound.st, "rejected", Undefined, 1, FALSE)
        ELSE Outcome(bound.st, "rejected", Undefined, 1, FALSE)

\* the try block of emitResidualLoopIfSafe (lines 130-240), entered with
\* blockEnv current; "rejected" is the block left without a return
emitResidualLoopTry(st, head, ob, body) ==
    LET bound == BindBoundNames(st, BoundNames(head), Undefined)
        e == evaluateNodeForEffects(bound.st, body)
    IN  IF ~bound.ok THEN Outcome(bound.st, "InvariantViolation", Undefined, 0, FALSE)
        ELSE IF e.compl = "FatalError" THEN IntrospectionError(bound.st, 1)
        ELSE IF /\ e.compl = "Value" /\ e.genEmpty /\ e.nbindings = 0
                /\ Len(e.properties) = 1
        THEN IF e.createdObj # 0
             THEN Outcome(bound.st, "InvariantViolation", Undefined, 1, FALSE)
             ELSE LET w == e.properties[1]
                  IN  IF w.unknown /\ w.value.abstract
                         /\ w.value.condKind # "template for property name condition"
                      THEN Outcome(bound.st, "InvariantViolation", Undefined, 1, FALSE)
                      ELSE IF TargetOf(w) \in Objects /\ SourceOf(w) # Undefined
                      THEN AcceptLoop(bound.st, ob, TargetOf(w), SourceOf(w))
                      ELSE Outcome(bound.st, "rejected", Undefined, 1, FALSE)
        ELSE Outcome(bound.st, "rejected", Undefined, 1, FALSE)

emitResidualLoopIfSafe_NoFinally(st, head, ob, body) ==
    IF ~isSimpleObject(st, ob) THEN Outcome(st, "InvariantViolation", Undefined, 0, FALSE)
    ELSE LET oldEnv == st.lexicalEnvironment
             blockEnv == NewDeclarativeEnvironment(oldEnv)
             r == emitResidualLoopTry([st EXCEPT !.lexicalEnvironment = blockEnv],
                                      head, ob, body)
             after == [r.st EXCEPT !.lexicalEnvironment = oldEnv]
         IN  IF r.outcome = "rejected" THEN reportError(after, "right.loc", r.evaluated)
             ELSE IF r.outcome = "Value" THEN [r EXCEPT !.st = after]
             ELSE r

\* emitResidualLoopIfSafe (lines 116-248): the try block runs with blockEnv
\* as the running context's lexicalEnvironment, the finally block sets
\* oldEnv again, and a body that was not accepted is reported after it
emitResidualLoopIfSafe(st, head, ob, body) ==
    IF ~isSimpleObject(st, ob) THEN Outcome(st, "InvariantViolation", Undefined, 0, FALSE)
    ELSE LET oldEnv == st.lexicalEnvironment
             blockEnv == NewDeclarativeEnvironment(oldEnv)
             r == emitResidualLoopTry([st EXCEPT !.lexicalEnvironment = blockEnv],
                                      head, ob, body)
             after == [r.st EXCEPT !.lexicalEnvironment = oldEnv]
         IN  IF r.outcome = "rejected" THEN reportError(after, "right.loc", r.evaluated)
             ELSE [r EXCEPT !.st = after]

\* The value the body reads from s[key] for a concrete key.
ReadKnown(st, s, key) ==
    IF st.objs[s].props[key] # Absent THEN st.objs[s].props[key]
    ELSE IF st.objs[s].partial THEN "abstract" ELSE Undefined

\* One evaluation of the loop body with the loop variable bound to key.
RunBody(st, body, key) ==
    CASE body.kind = "copy" ->
            [st |-> [st EXCEPT !.objs[body.target].props[key] = ReadKnown(st, body.source, key)],
             compl |-> "Value", value |-> Undefined]
      [] body.kind = "named" ->
            [st |-> [st EXCEPT !.objs[body.target].props["x"] = ReadKnown(st, body.source, key)],
             compl |-> "Value", value |-> Undefined]
      [] body.kind = "otherKey" ->
            [st |-> [st EXCEPT !.objs[body.target].props[key] = "abstract"], compl |-> "Value", value |-> Undefined]
      [] body.kind = "const" ->
            [st |-> [st EXCEPT !.objs[body.target].props[key] = "c"], compl |-> "Value", value |-> Undefined]
      [] body.kind = "log" ->
            [st |-> [st EXCEPT !.genBody = Append(@, [kind |-> "call", args |-> <<key>>])],
             compl |-> "Value", value |-> Undefined]
      [] body.kind \in {"empty", "assign"} -> [st |-> st, compl |-> "Value", value |-> Undefined]
      [] body.kind = "break" -> [st |-> st, compl |-> "BreakCompletion", value |-> Empty]
      [] body.kind = "breakValue" -> [st |-> st, compl |-> "BreakCompletion", value |-> "v1"]
      [] body.kind = "breakLabel" ->
            [st |-> st, compl |-> "BreakCompletion(label)", value |-> Empty]
      [] body.kind = "throw" -> [st |-> st, compl |-> "ThrowCompletion", value |-> "v1"]

\* ForIn/OfBodyEvaluation over the keys of a concrete object: the body runs
\* once per enumerable own key, in order, until it completes abruptly.
RECURSIVE ForInOfBodyEvaluation(_, _, _, _)
ForInOfBodyEvaluation(st, body, keys, n) ==
    IF keys = <<>> THEN Outcome(st, "Value", Undefined, n, FALSE)
    ELSE LET r == RunBody(st, body, Head(keys))
         IN  IF r.compl = "Value"
             THEN ForInOfBodyEvaluation(r.st, body, Tail(keys), n + 1)
             ELSE Outcome(r.st, r.compl, r.value, n + 1, FALSE)

\* reportErrorAndThrowIfNotConcrete, then ForIn/OfBodyEvaluation
ConcreteLoop(st, keyResult, body) ==
    IF keyResult.abstract THEN reportError(st, "right.loc", 0)
    ELSE ForInOfBodyEvaluation(st, body, KnownKeys(st, IteratedObject(keyResult)), 0)

ForInTry_AllHeads(st, head, keyResult, body) ==
    IF isPartialObject(st, keyResult) /\ isSimpleObject(st, keyResult)
    THEN emitResidualLoopIfSafe(st, head, keyResult, body)
    ELSE ConcreteLoop(st, keyResult, body)

\* The try block of the evaluator (lines 65-107)
ForInTry(st, head, keyResult, body) ==
    IF head \in {"var", "varPattern"}
    THEN IF isPartialObject(st, keyResult) /\ isSimpleObject(st, keyResult)
         THEN emitResidualLoopIfSafe(st, head, keyResult, body)
         ELSE ConcreteLoop(st, keyResult, body)
    ELSE ConcreteLoop(st, keyResult, body)

\* UpdateEmpty(realm, completionRecord, value).value
UpdateEmpty(value, default) == IF value = Empty THEN default ELSE value

ForInStatement_ConsumesEveryBreak(st, head, keyResult, body) ==
    LET r == ForInTry(st, head, keyResult, body)
    IN  IF r.outcome \in {"BreakCompletion", "BreakCompletion(label)"}
        THEN [r EXCEPT !.outcome = "Value", !.value = UpdateEmpty(r.value, Undefined)]
        ELSE r

\* ECMA262 13.7.5.11, with the catch block (lines 108-113)
ForInStatement(st, head, keyResult, body) ==
    LET r == ForInTry(st, head, keyResult, body)
    IN  IF r.outcome = "BreakCompletion"
        THEN [r EXCEPT !.outcome = "Value", !.value = UpdateEmpty(r.value, Undefined)]
        ELSE r

NoStatement ==
    [head |-> "none", keyResult |-> [abstract |-> FALSE, top |-> FALSE, elems |-> {}],
     body |-> [kind |-> "none", target |-> "o1", source |-> "o1"],
     outcome |-> "Value", value |-> Undefined, evaluated |-> 0, accepted |-> FALSE]

EvaluateForIn ==
    /\ UNCHANGED <<envVars, genVars, lexVars, globVars>>
    /\ nstmts < MaxStmts
    /\ \E head \in Heads, keyResult \in KeyResults, body \in Bodies :
          \E r \in {ForInStatement(ForState, head, keyResult, body)} :
              /\ objs' = r.st.objs
              /\ genBody' = r.st.genBody
              /\ diagnostics' = r.st.diagnostics
              /\ lexicalEnvironment' = r.st.lexicalEnvironment
              /\ flast' = [head |-> head, keyResult |-> keyResult, body |-> body,
                           outcome |-> r.outcome, value |-> r.value,
                           evaluated |-> r.evaluated, accepted |-> r.accepted]
    /\ nstmts' = nstmts + 1

PropsChoices(o) ==
    IF o = "o1"
    THEN {[k \in {"x", "y"} |-> Absent],
          [k \in {"x", "y"} |-> IF k = "x" THEN "p1" ELSE "p2"],
          [k \in {"x", "y"} |-> IF k = "x" THEN MaybeDeleted ELSE Absent]}
    ELSE {[k \in {"x", "y"} |-> IF k = "x" THEN "p2" ELSE Absent]}

ForInInit ==
    /\ objs \in {f \in [Objects -> [simple : BOOLEAN, partial : BOOLEAN,
                                    props : PropsChoices("o1") \cup PropsChoices("o2")]] :
                    \A o \in Objects : f[o].props \in PropsChoices(o)}
    /\ genBody = <<>>
    /\ diagnostics = <<>>
    /\ lexicalEnvironment = <<[names |-> <<"global">>]>>
    /\ flast = NoStatement
    /\ nstmts = 0

\* ------------------------------------------------------------------------
\* Generators: NameGenerator, PreludeGenerator, Generator
\* ------------------------------------------------------------------------
MaxGenOps == 2

\* Strings that are taken apart (keys, debug suffixes) are sequences of
\* tokens; Flat gives the string itself.
RECURSIVE Flat(_)
Flat(toks) == IF toks = <<>> THEN "" ELSE Head(toks) \o Flat(Tail(toks))

\* the character set of base62
Base62Chars ==
    <<"0", "1", "2", "3", "4", "5", "6", "7", "8", "9",
      "a", "b", "c", "d", "e", "f", "g", "h", "i", "j", "k", "l", "m",
      "n", "o", "p", "q", "r", "s", "t", "u", "v", "w", "x", "y", "z",
      "A", "B", "C", "D", "E", "F", "G", "H", "I", "J", "K", "L", "M",
      "N", "O", "P", "Q", "R", "S", "T", "U", "V", "W", "X", "Y", "Z">>

RECURSIVE Base62Digits(_, _)
Base62Digits(n, acc) ==
    IF n = 0 THEN acc
    ELSE Base62Digits(n \div Len(Base62Chars), Base62Chars[(n % Len(Base62Chars)) + 1] \o acc)

\* base62.encode
Base62Encode(n) == IF n = 0 THEN "0" ELSE Base62Digits(n, "")

\* debugSuffix.replace(/[.,:]/g, "_")
ReplaceSeparators(toks) ==
    [i \in 1..Len(toks) |-> IF toks[i] \in {".", ",", ":"} THEN "_" ELSE toks[i]]

\* the identifier tried for counter value n (lines 599-604)
Candidate(ng, n, debugSuffix) ==
    LET id1 == ng.prefix \o Base62Encode(n)
        id2 == IF Len(ng.uniqueSuffix) > 0 THEN id1 \o ng.uniqueSuffix ELSE id1
    IN  IF ng.debugNames
        THEN IF debugSuffix # <<>>
             THEN id2 \o "_" \o Flat(ReplaceSeparators(debugSuffix))
             ELSE id2 \o "_"
        ELSE id2

generate_NoForbiddenCheck(ng, debugSuffix) ==
    [ng |-> [ng EXCEPT !.uidCounter = @ + 1],
     id |-> Candidate(ng, ng.uidCounter, debugSuffix),
     tried |-> 1]

\* NameGenerator.generate: the do-while loop; tried counts the candidates.
RECURSIVE generate(_, _)
generate(ng, debugSuffix) ==
    LET id == Candidate(ng, ng.uidCounter, debugSuffix)
        ng1 == [ng EXCEPT !.uidCounter = @ + 1]
    IN  IF id \in ng.forbiddenNames
        THEN LET r == generate(ng1, debugSuffix)
             IN  [r EXCEPT !.tried = @ + 1]
        ELSE [ng |-> ng1, id |-> id, tried |-> 1]

\* new NameGenerator(forbiddenNames, debugNames, uniqueSuffix, prefix)
NameGenerator(forbiddenNames, debugNames, uniqueSuffix, prefix) ==
    [prefix |-> prefix, uidCounter |-> 0, debugNames |-> debugNames,
     forbiddenNames |-> forbiddenNames, uniqueSuffix |-> uniqueSuffix]

\* new PreludeGenerator(debugNames, uniqueSuffix)
PreludeGenerator(debugNames, uniqueSuffix) ==
    [prelude |-> <<>>, derivedIds |-> <<>>, memoizedRefs |-> <<>>,
     nameGenerator |-> NameGenerator({}, debugNames, uniqueSuffix, "_$"),
     usesThis |-> FALSE, declaredGlobals |-> {}]

\* Maps (derivedIds, memoizedRefs) are sequences of key/value pairs in
\* insertion order.
MapHas(map, key) == \E i \in 1..Len(map) : map[i].key = key

MapGet(map, key) == map[CHOOSE i \in 1..Len(map) : map[i].key = key].value

MapSet(map, key, value) ==
    IF MapHas(map, key)
    THEN [i \in 1..Len(map) |-> IF map[i].key = key THEN [key |-> key, value |-> value]
                                 ELSE map[i]]
    ELSE Append(map, [key |-> key, value |-> value])

\* key.includes("(") || key.includes("[")
IncludesBracket(key) == \E i \in 1..Len(key) : key[i] \in {"(", "["}

\* key.lastIndexOf("."), counted from 1; 0 when there is none
LastIndexOfDot(key) ==
    IF \E i \in 1..Len(key) : key[i] = "."
    THEN CHOOSE i \in 1..Len(key) : key[i] = "." /\ \A j \in (i + 1)..Len(key) : key[j] # "."
    ELSE 0

\* t.variableDeclaration("var", [t.variableDeclarator(ref, init)])
VarDeclaration(ref, init) == [ref |-> ref, init |-> init]

Identifier(name) == [type |-> "Identifier", name |-> name, object |-> "", property |-> ""]

ThisExpression == [type |-> "ThisExpression", name |-> "", object |-> "", property |-> ""]

MemberExpression(object, property) ==
    [type |-> "MemberExpression", name |-> "", object |-> object, property |-> property]

Memoize_Front(pg, key, init) ==
    LET g == generate(pg.nameGenerator, key)
    IN  [pg |-> [pg EXCEPT !.nameGenerator = g.ng,
                           !.prelude = <<VarDeclaration(g.id, init)>> \o @,
                           !.memoizedRefs = MapSet(@, Flat(key), g.id)],
         ref |-> g.id]

\* what memoizeReference does once init is known (lines 675-678)
Memoize(pg, key, init) ==
    LET g == generate(pg.nameGenerator, key)
    IN  [pg |-> [pg EXCEPT !.nameGenerator = g.ng,
                           !.prelude = Append(@, VarDeclaration(g.id, init)),
                           !.memoizedRefs = MapSet(@, Flat(key), g.id)],
         ref |-> g.id]

RECURSIVE memoizeReference_NoCache(_, _)
memoizeReference_NoCache(pg, key) ==
    IF IncludesBracket(key) THEN Memoize(pg, key, Identifier(Flat(key)))
    ELSE IF key = <<"global">>
    THEN Memoize([pg EXCEPT !.usesThis = TRUE], key, ThisExpression)
    ELSE LET i == LastIndexOfDot(key)
             r == IF i = 0 THEN memoizeReference_NoCache(pg, <<"global">>)
                  ELSE memoizeReference_NoCache(pg, SubSeq(key, 1, i - 1))
             name == IF i = 0 THEN Flat(key) ELSE Flat(SubSeq(key, i + 1, Len(key)))
         IN  Memoize(r.pg, key, MemberExpression(r.ref, name))

\* PreludeGenerator.memoizeReference
RECURSIVE memoizeReference(_, _)
memoizeReference(pg, key) ==
    IF MapHas(pg.memoizedRefs, Flat(key))
    THEN [pg |-> pg, ref |-> MapGet(pg.memoizedRefs, Flat(key))]
    ELSE IF IncludesBracket(key) THEN Memoize(pg, key, Identifier(Flat(key)))
    ELSE IF key = <<"global">>
    THEN Memoize([pg EXCEPT !.usesThis = TRUE], key, ThisExpression)
    ELSE LET i == LastIndexOfDot(key)
             r == IF i = 0 THEN memoizeReference(pg, <<"global">>)
                  ELSE memoizeReference(pg, SubSeq(key, 1, i - 1))
             name == IF i = 0 THEN Flat(key) ELSE Flat(SubSeq(key, i + 1, Len(key)))
         IN  Memoize(r.pg, key, MemberExpression(r.ref, name))

\* The generator state the operations work on.
GenState ==
    [generator |-> generator, preludeGenerator |-> preludeGenerator, abstracts |-> abstracts]

\* The classes a types domain can hold; TopValue is the class Value itself,
\* the top type.
Types == {"FunctionValue", "UndefinedValue", "NullValue", "StringValue", "BooleanValue",
          "NumberValue", "SymbolValue", "ObjectValue", "TopValue"}

\* entry.declared when the entry declares nothing
NoDeclaration == 0

\* an argument that is a concrete value; abstract values are 1, 2, ..
Concrete == 0

\* A GeneratorEntry; isPure is "true", "false" or "undefined", declared is
\* an abstract value or NoDeclaration, statement names what buildNode builds.
GeneratorEntry(isPure, declared, args, statement, id) ==
    [isPure |-> isPure, declared |-> declared, args |-> args, dependencies |-> <<>>,
     statement |-> statement, id |-> id]

Truthy(flag) == flag = "true"

GenResult(st, outcome, res) == [st |-> st, outcome |-> outcome, res |-> res]

PushEntry_Replace(st, entry) == [st EXCEPT !.generator.body = <<entry>>]

PushEntry_Front(st, entry) == [st EXCEPT !.generator.body = <<entry>> \o @]

\* this.body.push(entry)
PushEntry(st, entry) == [st EXCEPT !.generator.body = Append(@, entry)]

\* Generator.emitPropertyAssignment
emitPropertyAssignment(st, object, key, value) ==
    PushEntry(st, GeneratorEntry("undefined", NoDeclaration, <<object, value>>,
                                 "assignment", key))

\* Generator.emitInvariant
emitInvariant(st, args, typeofString) ==
    PushEntry(st, GeneratorEntry("undefined", NoDeclaration, args, "invariant", typeofString))

\* realm.intrinsics.undefined as an argument
TheUndefined == -1

\* Generator.emitGlobalAssignment
emitGlobalAssignment(st, key, value, strictMode) ==
    PushEntry(st, GeneratorEntry("undefined", NoDeclaration, <<value>>,
                                 IF strictMode THEN "global assignment"
                                               ELSE "global assignment (global scope)", key))

\* Generator.emitGlobalDeclaration
emitGlobalDeclaration(st, key, value) ==
    LET s1 == [st EXCEPT !.preludeGenerator.declaredGlobals = @ \cup {key}]
    IN  IF value # TheUndefined THEN emitGlobalAssignment(s1, key, value, TRUE) ELSE s1

\* Generator.emitGlobalDelete
emitGlobalDelete(st, key, strictMode) ==
    PushEntry(st, GeneratorEntry("undefined", NoDeclaration, <<>>,
                                 IF strictMode THEN "global delete"
                                               ELSE "global delete (global scope)", key))

\* a Descriptor; a field that is absent is TheUndefined
Descriptor(enumerable, configurable, writable, value, get, set) ==
    [enumerable |-> enumerable, configurable |-> configurable, writable |-> writable,
     value |-> value, get |-> get, set |-> set]

\* Generator.emitDefineProperty
emitDefineProperty(st, object, key, desc) ==
    IF desc.enumerable /\ desc.configurable /\ desc.writable /\ desc.value # TheUndefined
    THEN emitPropertyAssignment(st, object, key, desc.value)
    ELSE PushEntry(st, GeneratorEntry("undefined", NoDeclaration,
                                      <<object, desc.value, desc.get, desc.set>>,
                                      "defineProperty", key))

\* Generator.emitPropertyDelete
emitPropertyDelete(st, object, key) ==
    PushEntry(st, GeneratorEntry("undefined", NoDeclaration, <<object>>, "delete", key))

\* Generator.emitCall
emitCall(st, createCallee, args) ==
    PushEntry(st, GeneratorEntry("undefined", NoDeclaration, args, "call", createCallee))

\* Generator.emitConsoleLog: the strings among args become StringValues
emitConsoleLog(st, method, args) ==
    emitCall(st, "console." \o method, [k \in 1..Len(args) |-> Concrete])

\* Generator.emitVoidExpression
emitVoidExpression(st, types, args, buildNode_) ==
    PushEntry(st, GeneratorEntry("undefined", NoDeclaration, args, "expression", buildNode_))

\* Generator.clone: a new generator over a copy of the body
clone(st) == [body |-> st.generator.body]

\* type instanceof FunctionValue, for type = types.getType(): a type is a
\* class (typeof Value), and no class has FunctionValue.prototype on its
\* prototype chain, so the test fails for every type, FunctionValue included.
InstanceOfFunctionValue(type) == FALSE

NoTypeof == "none"

\* lines 520-528; "invariant(false)" for the two types derive rejects
TypeofString(type) ==
    IF InstanceOfFunctionValue(type) THEN "function"
    ELSE IF type = "UndefinedValue" THEN "invariant(false)"
    ELSE IF type = "NullValue" THEN "invariant(false)"
    ELSE IF type = "StringValue" THEN "string"
    ELSE IF type = "BooleanValue" THEN "boolean"
    ELSE IF type = "NumberValue" THEN "number"
    ELSE IF type = "SymbolValue" THEN "symbol"
    ELSE IF type = "ObjectValue" THEN "object"
    ELSE NoTypeof

NoOptionalArgs == [present |-> FALSE, isPure |-> "undefined", skipInvariant |-> FALSE]

OptionalArgs ==
    {NoOptionalArgs}
    \cup {[present |-> TRUE, isPure |-> "true", skipInvariant |-> k] : k \in BOOLEAN}

\* Generator.derive
derive(st, types, args, isFunction, optionalArgs) ==
    IF ~(isFunction \/ Len(args) = 0) THEN GenResult(st, "InvariantViolation", 0)
    ELSE
    LET g == generate(st.preludeGenerator.nameGenerator, <<"derived">>)
        res == Len(st.abstracts) + 1
        s1 == [st EXCEPT !.preludeGenerator.nameGenerator = g.ng,
                         !.preludeGenerator.derivedIds = MapSet(@, g.id, args),
                         !.abstracts = Append(@, [types |-> types, intrinsicName |-> g.id])]
        s2 == PushEntry(s1, GeneratorEntry(
                                IF optionalArgs.present THEN optionalArgs.isPure ELSE "undefined",
                                res, args, "var", g.id))
        typeofString == TypeofString(types)
    IN  IF optionalArgs.present /\ optionalArgs.skipInvariant THEN GenResult(s2, "normal", res)
        ELSE IF typeofString = "invariant(false)" THEN GenResult(s2, "InvariantViolation", 0)
        ELSE IF typeofString # NoTypeof
        THEN GenResult(emitInvariant(s2, <<res, res>>, typeofString), "normal", res)
        ELSE GenResult(s2, "normal", res)

\* What the serialization context and the visitor callbacks are called with.
Event(ev, x) == [ev |-> ev, x |-> x]

Emitted_OmitImpure(entry, canOmit) ==
    \/ entry.declared = NoDeclaration
    \/ entry.declared \notin canOmit

\* the if of serialize (line 560)
Emitted(entry, canOmit) ==
    \/ ~Truthy(entry.isPure)
    \/ entry.declared = NoDeclaration
    \/ entry.declared \notin canOmit

SerializeEntry_DeclareFirst(entry, i) ==
    (IF entry.declared # NoDeclaration THEN <<Event("declare", entry.declared)>> ELSE <<>>)
    \o <<Event("buildNode", i), Event("emit", i)>>
    \o [k \in 1..Len(entry.args) |-> Event("serializeValue", entry.args[k])]

\* lines 561-563 for the entry at position i
SerializeEntry(entry, i) ==
    [k \in 1..Len(entry.args) |-> Event("serializeValue", entry.args[k])]
    \o <<Event("buildNode", i), Event("emit", i)>>
    \o (IF entry.declared # NoDeclaration THEN <<Event("declare", entry.declared)>> ELSE <<>>)

\* Generator.serialize: the calls made on the context, in order, for the
\* entries from position i on.
RECURSIVE serialize(_, _, _)
serialize(body, i, canOmit) ==
    IF i > Len(body) THEN <<>>
    ELSE (IF Emitted(body[i], canOmit) THEN SerializeEntry(body[i], i) ELSE <<>>)
         \o serialize(body, i + 1, canOmit)

visitEntry_DeclareDelayed(entry, i, canSkip) ==
    (IF entry.declared # NoDeclaration THEN <<Event("recordDeclaration", entry.declared)>>
     ELSE <<>>)
    \o (IF Truthy(entry.isPure) /\ entry.declared # NoDeclaration /\ entry.declared \in canSkip
        THEN <<Event("recordDelayedEntry", i)>>
        ELSE [k \in 1..Len(entry.args) |-> Event("visitValue", entry.args[k])]
             \o [k \in 1..Len(entry.dependencies) |->
                    Event("visitGenerator", entry.dependencies[k])])

\* Generator.visitEntry: the calls made on the callbacks, in order.
visitEntry(entry, i, canSkip) ==
    IF Truthy(entry.isPure) /\ entry.declared # NoDeclaration /\ entry.declared \in canSkip
    THEN <<Event("recordDelayedEntry", i)>>
    ELSE (IF entry.declared # NoDeclaration
          THEN <<Event("recordDeclaration", entry.declared)>>
          ELSE <<>>)
         \o [k \in 1..Len(entry.args) |-> Event("visitValue", entry.args[k])]
         \o [k \in 1..Len(entry.dependencies) |->
                Event("visitGenerator", entry.dependencies[k])]

\* The residualizer's context omits only what is unreferenced: no entry that
\* is emitted takes as argument the declared value of an entry that is skipped.
UnreferencedOnly(body, canOmit) ==
    \A i \in 1..Len(body), j \in 1..Len(body) :
        (~Emitted(body[i], canOmit) /\ Emitted(body[j], canOmit)) =>
            \A k \in 1..Len(body[j].args) : body[j].args[k] # body[i].declared

NoGenOp ==
    [op |-> "none", outcome |-> "normal", res |-> 0, id |-> "", tried |-> 0,
     types |-> "TopValue", args |-> <<>>, optionalArgs |-> NoOptionalArgs,
     key |-> <<>>, canOmit |-> {}, events |-> <<>>,
     entry |-> GeneratorEntry("undefined", NoDeclaration, <<>>, "none", "")]

\* the values an argument can be: a concrete value or an abstract value made so far
ArgValues == Concrete..Len(abstracts)

\* args and buildNode_ of a derive call: a template node without arguments,
\* a template node with an argument (refused), a function over abstract values
DeriveArgs ==
    {[args |-> <<>>, isFunction |-> FALSE], [args |-> <<Concrete>>, isFunction |-> FALSE]}
    \cup {[args |-> <<v>>, isFunction |-> TRUE] : v \in 1..Len(abstracts)}

Keys4Memo ==
    {<<"global">>, <<"Object">>, <<"Object", ".", "prototype">>, <<"a", "[", "b", "]">>}

DebugSuffixes == {<<>>, <<"a", ".", "b">>, <<"a", "_", "b">>}

\* the identifiers the prelude declared by the end of a call, from position n on
NewRefs(pg, n) == [i \in 1..(Len(pg.prelude) - n) |-> pg.prelude[n + i].ref]

DoDerive ==
    /\ ngops < MaxGenOps
    /\ \E types \in Types, a \in DeriveArgs, optionalArgs \in OptionalArgs :
          \E args \in {a.args}, r \in {derive(GenState, types, a.args, a.isFunction,
                                               optionalArgs)} :
              /\ generator' = r.st.generator
              /\ preludeGenerator' = r.st.preludeGenerator
              /\ abstracts' = r.st.abstracts
              /\ issued' = IF Len(r.st.abstracts) > Len(abstracts)
                           THEN Append(issued, r.st.abstracts[Len(r.st.abstracts)].intrinsicName)
                           ELSE issued
              /\ glast' = [NoGenOp EXCEPT !.op = "derive", !.outcome = r.outcome,
                                          !.res = r.res, !.types = types, !.args = args,
                                          !.optionalArgs = optionalArgs]
    /\ ngops' = ngops + 1
    /\ UNCHANGED <<envVars, forVars, lexVars, globVars>>

DoEmitPropertyAssignment ==
    /\ ngops < MaxGenOps
    /\ \E object \in ArgValues, value \in ArgValues :
          /\ generator' = emitPropertyAssignment(GenState, object, "p", value).generator
          /\ glast' = [NoGenOp EXCEPT !.op = "emitPropertyAssignment",
                                      !.args = <<object, value>>]
    /\ ngops' = ngops + 1
    /\ UNCHANGED <<preludeGenerator, abstracts, issued, envVars, forVars, lexVars, globVars>>

\* installs the generator state an emit call left behind
Emit(st, op, args) ==
    /\ generator' = st.generator
    /\ preludeGenerator' = st.preludeGenerator
    /\ glast' = [NoGenOp EXCEPT !.op = op, !.args = args]
    /\ ngops' = ngops + 1
    /\ UNCHANGED <<abstracts, issued, envVars, forVars, lexVars, globVars>>

\* the values an emit call is given: a concrete value or the abstract value made last
EmitValues == {Concrete, Len(abstracts)}

DoEmitGlobalDeclaration ==
    /\ ngops < MaxGenOps
    /\ \E value \in {TheUndefined, Concrete} :
          Emit(emitGlobalDeclaration(GenState, "g", value), "emitGlobalDeclaration", <<value>>)

DoEmitGlobalAssignment ==
    /\ ngops < MaxGenOps
    /\ \E value \in EmitValues, strictMode \in BOOLEAN :
          Emit(emitGlobalAssignment(GenState, "g", value, strictMode),
               "emitGlobalAssignment", <<value>>)

DoEmitGlobalDelete ==
    /\ ngops < MaxGenOps
    /\ \E strictMode \in BOOLEAN :
          Emit(emitGlobalDelete(GenState, "g", strictMode), "emitGlobalDelete", <<>>)

\* a plain data property, a read-only one, an accessor, and an empty descriptor
Descriptors ==
    {Descriptor(TRUE, TRUE, w, Concrete, TheUndefined, TheUndefined) : w \in BOOLEAN} \cup
    {Descriptor(TRUE, TRUE, FALSE, TheUndefined, Concrete, Concrete),
     Descriptor(TRUE, TRUE, TRUE, TheUndefined, TheUndefined, TheUndefined)}

DoEmitDefineProperty ==
    /\ ngops < MaxGenOps
    /\ \E desc \in Descriptors :
          Emit(emitDefineProperty(GenState, Concrete, "p", desc), "emitDefineProperty",
               <<Concrete, desc.value, desc.get, desc.set>>)

DoEmitPropertyDelete ==
    /\ ngops < MaxGenOps
    /\ \E object \in EmitValues :
          Emit(emitPropertyDelete(GenState, object, "p"), "emitPropertyDelete", <<object>>)

DoEmitCall ==
    /\ ngops < MaxGenOps
    /\ \E args \in {<<>>, <<Concrete, Len(abstracts)>>} :
          Emit(emitCall(GenState, "f", args), "emitCall", args)

DoEmitConsoleLog ==
    /\ ngops < MaxGenOps
    /\ \E method \in {"log", "warn", "error"} :
          Emit(emitConsoleLog(GenState, method, <<"s", Concrete>>), "emitConsoleLog",
               <<Concrete, Concrete>>)

DoEmitInvariant ==
    /\ ngops < MaxGenOps
    /\ \E args \in {<<v>> : v \in EmitValues} :
          Emit(emitInvariant(GenState, args, "violationConditionFn"), "emitInvariant", args)

DoEmitVoidExpression ==
    /\ ngops < MaxGenOps
    /\ \E args \in {<<>>, <<Len(abstracts)>>}, buildNode_ \in {"function", "expression"} :
          Emit(emitVoidExpression(GenState, "TopValue", args, buildNode_),
               "emitVoidExpression", args)

DoClone ==
    /\ ngops < MaxGenOps
    /\ glast' = [NoGenOp EXCEPT !.op = "clone", !.events = clone(GenState).body]
    /\ ngops' = ngops + 1
    /\ UNCHANGED <<generator, preludeGenerator, abstracts, issued, envVars, forVars, lexVars,
                   globVars>>

DoSerialize ==
    /\ ngops < MaxGenOps
    /\ generator.body # <<>>
    /\ \E canOmit \in SUBSET (1..Len(abstracts)) :
          glast' = [NoGenOp EXCEPT !.op = "serialize", !.canOmit = canOmit,
                                   !.events = serialize(generator.body, 1, canOmit)]
    /\ ngops' = ngops + 1
    /\ UNCHANGED <<generator, preludeGenerator, abstracts, issued, envVars, forVars, lexVars, globVars>>

DoVisitEntry ==
    /\ ngops < MaxGenOps
    /\ \E i \in 1..Len(generator.body), dependencies \in {<<>>, <<1, 2>>},
          canSkip \in SUBSET (1..Len(abstracts)) :
          LET entry == [generator.body[i] EXCEPT !.dependencies = dependencies]
          IN  glast' = [NoGenOp EXCEPT !.op = "visitEntry", !.canOmit = canSkip,
                                       !.res = i, !.entry = entry,
                                       !.events = visitEntry(entry, i, canSkip)]
    /\ ngops' = ngops + 1
    /\ UNCHANGED <<generator, preludeGenerator, abstracts, issued, envVars, forVars, lexVars, globVars>>

DoGenerate ==
    /\ ngops < MaxGenOps
    /\ \E debugSuffix \in DebugSuffixes :
          \E g \in {generate(preludeGenerator.nameGenerator, debugSuffix)} :
              /\ preludeGenerator' = [preludeGenerator EXCEPT !.nameGenerator = g.ng]
              /\ issued' = Append(issued, g.id)
              /\ glast' = [NoGenOp EXCEPT !.op = "generate", !.id = g.id,
                                          !.tried = g.tried, !.key = debugSuffix]
    /\ ngops' = ngops + 1
    /\ UNCHANGED <<generator, abstracts, envVars, forVars, lexVars, globVars>>

DoMemoizeReference ==
    /\ ngops < MaxGenOps
    /\ \E key \in Keys4Memo :
          \E r \in {memoizeReference(preludeGenerator, key)} :
              /\ preludeGenerator' = r.pg
              /\ issued' = issued \o NewRefs(r.pg, Len(preludeGenerator.prelude))
              /\ glast' = [NoGenOp EXCEPT !.op = "memoizeReference", !.id = r.ref,
                                          !.key = key,
                                          !.res = Len(r.pg.prelude)
                                                    - Len(preludeGenerator.prelude)]
    /\ ngops' = ngops + 1
    /\ UNCHANGED <<generator, abstracts, envVars, forVars, lexVars, globVars>>

\* The names in the forbidden set are put there by the serializer before
\* any name is generated.
ForbiddenNames(debugNames) ==
    IF debugNames
    THEN {"_$0_", "_$1_a_b", "_$0_derived", "_$0_global", "_$1_Object", "_$2_derived"}
    ELSE {"_$1"}

GenInit ==
    /\ generator = [body |-> <<>>]
    /\ \E debugNames \in BOOLEAN :
          preludeGenerator =
              [PreludeGenerator(debugNames, "") EXCEPT
                  !.nameGenerator.forbiddenNames = ForbiddenNames(debugNames)]
    /\ abstracts = <<>>
    /\ issued = <<>>
    /\ glast = NoGenOp
    /\ ngops = 0

\* the generator state while no generator operation runs
GenIdle ==
    /\ generator = <<>>
    /\ preludeGenerator = <<>>
    /\ abstracts = <<>>
    /\ issued = <<>>
    /\ glast = <<>>
    /\ ngops = 0

GenNext ==
    \/ DoDerive
    \/ DoEmitPropertyAssignment
    \/ DoEmitGlobalDeclaration
    \/ DoEmitGlobalAssignment
    \/ DoEmitGlobalDelete
    \/ DoEmitDefineProperty
    \/ DoEmitPropertyDelete
    \/ DoEmitCall
    \/ DoEmitConsoleLog
    \/ DoEmitInvariant
    \/ DoEmitVoidExpression
    \/ DoClone
    \/ DoSerialize
    \/ DoVisitEntry
    \/ DoGenerate
    \/ DoMemoizeReference

\* the for-in state while only the environment records run
ForInIdle ==
    /\ objs = <<>>
    /\ genBody = <<>>
    /\ diagnostics = <<>>
    /\ lexicalEnvironment = <<>>
    /\ flast = <<>>
    /\ nstmts = 0

ForInNext == EvaluateForIn

\* ------------------------------------------------------------------------
\* LexicalEnvironment: the parser wrapper, the evaluator dispatcher, execute
\* ------------------------------------------------------------------------
MaxLexOps == 2

\* What is returned or thrown: its class, its identity, and the message or
\* the value it was constructed with.
Thing(cls, id, of) == [cls |-> cls, id |-> id, of |-> of]

Nothing == Thing("undefined", "", <<>>)

\* How a call leaves: channel "return" or "throw", with what, after which steps.
Exit(st, channel, thing, steps) ==
    [st |-> st, channel |-> channel, thing |-> thing, steps |-> steps]

\* A message is a sequence of words; a.indexOf(b) is the first position of b in a.
IndexOf(a, b) ==
    LET hits == {i \in 1..(Len(a) - Len(b) + 1) : SubSeq(a, i, i + Len(b) - 1) = b}
    IN  IF hits = {} THEN -1 ELSE (CHOOSE i \in hits : \A j \in hits : i <= j) - 1

\* let referenceErrors = [...]
referenceErrors ==
    <<
      <<"Invalid", "left-hand", "side", "in", "postfix", "operation">>,
      <<"Invalid", "left-hand", "side", "in", "prefix", "operation">>,
      <<"Invalid", "left-hand", "side", "in", "assignment", "expression">>
    >>

\* What the parser reports: the message of the SyntaxError it throws.
Messages ==
    {referenceErrors[i] \o <<"(1:0)">> : i \in 1..3} \cup
    {<<"Invalid", "left-hand", "side", "in", "for-loop", "(1:5)">>,
     <<"Unexpected", "token", "(1:0)">>,
     <<"Invalid", "left-hand", "side", "in", "assignment">>,
     <<"unknown:">> \o referenceErrors[2] \o <<"(2:1)">>}

Filenames == {"a.js", "b.js"}
NoLoc == [at |-> "none", source |-> Undefined]
NodeTypes == {"File", "Unsupported"}
Locations == {"l1", "l2"}

\* An AST node: its type and its location {start, end, source}.
Node(type, loc) == [type |-> type, loc |-> loc]
Loc(at, source) == [at |-> at, source |-> source]

\* The trees the parser hands back, as the nodes traverseFast visits, root first.
Asts ==
    {<<Node(t, Loc(l, Undefined))>> : t \in NodeTypes, l \in Locations} \cup
    {<<Node("File", Loc("l1", Undefined)), Node("Unsupported", Loc("l2", "parser"))>>,
     <<Node("File", Loc("l1", Undefined)), Node("Unsupported", NoLoc)>>}

\* babylon's parse: a tree, a SyntaxError with a message, or another exception.
ParserResults ==
    {Exit(<<>>, "return", ast, <<>>) : ast \in Asts} \cup
    {Exit(<<>>, "throw", Thing("SyntaxError", "e", m), <<>>) : m \in Messages} \cup
    {Exit(<<>>, "throw", Thing("RangeError", "e", <<"Maximum", "call", "stack">>), <<>>)}

\* invariant(cond): throws an Error when cond is false
InvariantViolation == Thing("Error", "invariant", <<>>)

\* the object Construct(realm, realm.intrinsics.<ctor>, [message]) makes, with
\* the location data parse attaches to it
ErrorObject(ctor, e, filename, code) ==
    [ctor |-> ctor, message |-> e.of,
     locationData |-> [filename |-> filename, sourceCode |-> code, stackDecorated |-> FALSE]]

\* traverseFast(ast, node => { invariant(node.loc); node.loc.source = filename; })
SetLocSource(ast, filename) ==
    [i \in 1..Len(ast) |-> [ast[i] EXCEPT !.loc = [@ EXCEPT !.source = filename]]]

parse_AlwaysSyntaxError(parsed, code, filename) ==
    IF parsed.channel = "return"
    THEN IF \E i \in 1..Len(parsed.thing) : parsed.thing[i].loc = NoLoc
         THEN Exit(<<>>, "throw", InvariantViolation, <<>>)
         ELSE Exit(<<>>, "return", SetLocSource(parsed.thing, filename), <<>>)
    ELSE LET e == parsed.thing
         IN  IF e.cls = "SyntaxError"
             THEN Exit(<<>>, "throw",
                       Thing("ThrowCompletion", "parse",
                             ErrorObject("SyntaxError", e, filename, code)), <<>>)
             ELSE Exit(<<>>, "throw", e, <<>>)

\* utils/parse.js, default export. parsed is what babylon's parse does with
\* the code.
parse(parsed, code, filename) ==
    IF parsed.channel = "return"
    THEN IF \E i \in 1..Len(parsed.thing) : parsed.thing[i].loc = NoLoc
         THEN Exit(<<>>, "throw", InvariantViolation, <<>>)
         ELSE Exit(<<>>, "return", SetLocSource(parsed.thing, filename), <<>>)
    ELSE LET e == parsed.thing
         IN  IF e.cls = "SyntaxError"
             THEN LET ctor == IF \E k \in 1..Len(referenceErrors) :
                                    IndexOf(e.of, referenceErrors[k]) >= 0
                              THEN "ReferenceError" ELSE "SyntaxError"
                  IN  Exit(<<>>, "throw",
                           Thing("ThrowCompletion", "parse",
                                 ErrorObject(ctor, e, filename, code)), <<>>)
             ELSE Exit(<<>>, "throw", e, <<>>)

\* The realm state the LexicalEnvironment methods work on.
LexState ==
    [contextStack |-> contextStack, currentLocation |-> currentLocation,
     handled |-> handled, contexts |-> contexts]

\* completions.js: the classes below AbruptCompletion, and the host Errors
AbruptCompletions == {"ThrowCompletion", "BreakCompletion", "ContinueCompletion",
                      "ReturnCompletion", "JoinedAbruptCompletions"}
Completions == AbruptCompletions \cup {"PossiblyNormalCompletion"}
Errors == {"Error", "FatalError", "TypeError", "SyntaxError", "RangeError"}

\* new ExecutionContext(), with the fields the methods set
ExecutionContext(id) ==
    [id |-> id, lexicalEnvironment |-> "this", variableEnvironment |-> "this",
     savedCompletion |-> Nothing]

\* realm.pushContext(context)
pushContext(st, context) == [st EXCEPT !.contextStack = Append(@, context)]

\* realm.popContext(context): pops the running context, which must be context
popContext(st, context) ==
    LET n == Len(st.contextStack)
    IN  [st |-> [st EXCEPT !.contextStack = SubSeq(@, 1, n - 1)],
         ok |-> n > 0 /\ st.contextStack[n].id = context.id]

\* realm.handleError(diagnostic)
handleError(st, code, severity) ==
    [st EXCEPT !.handled = Append(@, [code |-> code, severity |-> severity])]

\* AbstractValue.reportIntrospectionError(val)
reportIntrospectionError(st) == handleError(st, "PP0001", "FatalError")

\* realm.testTimeout(): throws a FatalError when the deadline has passed
testTimeout(st, expired) ==
    IF expired
    THEN Exit(handleError(st, "timeout", "FatalError"), "throw",
              Thing("FatalError", "new", <<"Timed", "out">>), <<>>)
    ELSE Exit(st, "return", Nothing, <<>>)

\* realm.evaluators: the node types that have an evaluator
evaluators == {"File"}

\* What an evaluator does when invoked: how it leaves and with what, whether
\* it leaves a possibly-normal completion saved in the running context, and
\* the location of the node it evaluated last (its own when it has no children).
Evaluation(channel, thing, saves, visited) ==
    [channel |-> channel, thing |-> thing, saves |-> saves, visited |-> visited]

Returned == {Thing("Value", "v", <<>>), Thing("Reference", "r", <<>>),
             Thing("Reference", "unresolvable", <<>>),
             Thing("PossiblyNormalCompletion", "p", <<>>)}

Thrown == {Thing(c, "t", <<>>) : c \in Completions} \cup
          {Thing("FatalError", "t", <<>>), Thing("Error", "t", <<>>),
           Thing("String", "t", <<>>)}

Evaluations ==
    {Evaluation("return", x, s, NoLoc) : x \in Returned, s \in BOOLEAN} \cup
    {Evaluation("throw", x, FALSE, NoLoc) : x \in Thrown} \cup
    {Evaluation("throw", Thing("ThrowCompletion", "t", <<>>), TRUE, NoLoc),
     Evaluation("return", Thing("Value", "v", <<>>), FALSE, Loc("l3", Undefined))}

\* An evaluation together with the state of the realm's deadline. Nothing is
\* evaluated once the deadline has passed.
Behaviour(ev, expired) == [ev |-> ev, expired |-> expired]
Behaviours ==
    {Behaviour(ev, FALSE) : ev \in Evaluations} \cup
    {Behaviour(Evaluation("return", Thing("Value", "v", <<>>), FALSE, NoLoc), TRUE)}

SavedCompletion == Thing("PossiblyNormalCompletion", "saved", <<>>)

\* the evaluator's effect on the realm: contexts it enters it also leaves
Invoke(st, ev) ==
    LET n == Len(st.contextStack)
        s1 == IF ev.visited = NoLoc THEN st ELSE [st EXCEPT !.currentLocation = ev.visited]
    IN  IF ev.saves /\ n > 0
        THEN [s1 EXCEPT !.contextStack[n].savedCompletion = SavedCompletion]
        ELSE s1

FoldSavedCompletion_KeepsSaved(st, result, steps) ==
    LET n == Len(st.contextStack)
        read == steps \o <<"savedCompletion">>
    IN  IF n = 0
        THEN Exit(st, "throw", InvariantViolation, read)
        ELSE LET savedCompletion == st.contextStack[n].savedCompletion
             IN  IF savedCompletion = Nothing
                 THEN Exit(st, "return", result, read)
                 ELSE IF result.cls = "Value"
                 THEN Exit(st, "return", [savedCompletion EXCEPT !.of = <<result.id>>],
                           read \o <<"fold">>)
                 ELSE IF result.cls = "PossiblyNormalCompletion"
                 THEN Exit(st, "return",
                           Thing("PossiblyNormalCompletion", "composed",
                                 <<savedCompletion.id, result.id>>),
                           read \o <<"fold">>)
                 ELSE Exit(reportIntrospectionError(st), "throw",
                           Thing("FatalError", "new", <<>>), read \o <<"fold">>)

\* The part of evaluateAbstract that follows the evaluator's return.
FoldSavedCompletion(st, result, steps) ==
    LET n == Len(st.contextStack)
        read == steps \o <<"savedCompletion">>
    IN  IF n = 0
        THEN Exit(st, "throw", InvariantViolation, read)
        ELSE LET savedCompletion == st.contextStack[n].savedCompletion
                 cleared == [st EXCEPT !.contextStack[n].savedCompletion = Nothing]
             IN  IF savedCompletion = Nothing
                 THEN Exit(st, "return", result, read)
                 ELSE IF result.cls = "Value"
                 THEN Exit(cleared, "return", [savedCompletion EXCEPT !.of = <<result.id>>],
                           read \o <<"fold">>)
                 ELSE IF result.cls = "PossiblyNormalCompletion"
                 THEN Exit(cleared, "return",
                           Thing("PossiblyNormalCompletion", "composed",
                                 <<savedCompletion.id, result.id>>),
                           read \o <<"fold">>)
                 ELSE Exit(reportIntrospectionError(st), "throw",
                           Thing("FatalError", "new", <<>>), read \o <<"fold">>)

evaluateAbstract_LookupFirst(st, ast, ev, expired) ==
    LET s1 == [st EXCEPT !.currentLocation = ast.loc]
        located == <<"currentLocation">>
    IN  IF ast.type \notin evaluators
        THEN Exit(s1, "throw", Thing("TypeError", "new", <<"Unsupported", "node", "type">>),
                  located \o <<"evaluators">>)
        ELSE LET t == testTimeout(s1, expired)
                 polled == located \o <<"evaluators", "testTimeout">>
             IN  IF t.channel = "throw"
                 THEN Exit(t.st, "throw", t.thing, polled)
                 ELSE LET s2 == Invoke(t.st, ev)
                          invoked == polled \o <<"evaluator">>
                      IN  IF ev.channel = "throw"
                          THEN Exit(s2, "throw", ev.thing, invoked)
                          ELSE FoldSavedCompletion(s2, ev.thing, invoked)

\* LexicalEnvironment.evaluateAbstract. ev is what the evaluator of ast.type
\* does; expired, whether the realm's deadline has passed.
evaluateAbstract(st, ast, ev, expired) ==
    LET s1 == [st EXCEPT !.currentLocation = ast.loc]
        located == <<"currentLocation">>
        t == testTimeout(s1, expired)
        polled == located \o <<"testTimeout">>
    IN  IF t.channel = "throw"
        THEN Exit(t.st, "throw", t.thing, polled)
        ELSE IF ast.type \notin evaluators
        THEN Exit(t.st, "throw", Thing("TypeError", "new", <<"Unsupported", "node", "type">>),
                  polled \o <<"evaluators">>)
        ELSE LET s2 == Invoke(t.st, ev)
                 invoked == polled \o <<"evaluators", "evaluator">>
             IN  IF ev.channel = "throw"
                 THEN Exit(s2, "throw", ev.thing, invoked)
                 ELSE FoldSavedCompletion(s2, ev.thing, invoked)

\* LexicalEnvironment.evaluate
evaluate(st, ast, ev, expired) ==
    LET res == evaluateAbstract(st, ast, ev, expired)
    IN  IF res.channel = "throw" THEN res
        ELSE IF res.thing.cls = "PossiblyNormalCompletion"
        THEN Exit(reportIntrospectionError(res.st), "throw",
                  Thing("FatalError", "new", <<>>), res.steps)
        ELSE IF res.thing.cls \notin {"Value", "Reference"}
        THEN Exit(res.st, "throw", InvariantViolation, res.steps)
        ELSE res

evaluateCompletion_AbruptFirst(st, ast, ev, expired) ==
    LET res == evaluate(st, ast, ev, expired)
        err == res.thing
    IN  IF res.channel = "return" THEN res
        ELSE IF err.cls \in AbruptCompletions
        THEN Exit(res.st, "return", err, res.steps)
        ELSE IF err.cls \in {"JoinedAbruptCompletions", "PossiblyNormalCompletion"}
        THEN Exit(reportIntrospectionError(res.st), "throw",
                  Thing("FatalError", "new", <<>>), res.steps)
        ELSE IF err.cls \in Errors
        THEN res
        ELSE Exit(res.st, "throw", Thing("FatalError", "new", <<err.cls, err.id>>), res.steps)

\* LexicalEnvironment.evaluateCompletion
evaluateCompletion(st, ast, ev, expired) ==
    LET res == evaluate(st, ast, ev, expired)
        err == res.thing
    IN  IF res.channel = "return" THEN res
        ELSE IF err.cls \in {"JoinedAbruptCompletions", "PossiblyNormalCompletion"}
        THEN Exit(reportIntrospectionError(res.st), "throw",
                  Thing("FatalError", "new", <<>>), res.steps)
        ELSE IF err.cls \in AbruptCompletions
        THEN Exit(res.st, "return", err, res.steps)
        ELSE IF err.cls \in Errors
        THEN res
        ELSE Exit(res.st, "throw", Thing("FatalError", "new", <<err.cls, err.id>>), res.steps)

\* GetValue(realm, V): V itself unless it is a Reference; an unresolvable
\* Reference throws a ReferenceError completion.
GetValue(st, V, steps) ==
    IF V.cls # "Reference" THEN Exit(st, "return", V, steps)
    ELSE IF V.id = "unresolvable"
    THEN Exit(st, "throw", Thing("ThrowCompletion", "GetValue", <<"ReferenceError">>), steps)
    ELSE Exit(st, "return", Thing("Value", "v", <<>>), steps)

\* the source maps: the original source of a location, or Undefined for none
SourceMaps == {"", "m"}
originalPositionFor(map, loc) == IF loc.at = "l1" THEN "orig.js" ELSE Undefined

\* LexicalEnvironment.fixup_source_locations
fixup_source_locations(ast, map) ==
    [i \in 1..Len(ast) |->
        IF ast[i].loc = NoLoc \/ originalPositionFor(map, ast[i].loc) = Undefined
        THEN ast[i]
        ELSE [ast[i] EXCEPT !.loc.source = originalPositionFor(map, ast[i].loc)]]

\* LexicalEnvironment.fixup_filenames
fixup_filenames(ast) ==
    [i \in 1..Len(ast) |->
        IF ast[i].loc = NoLoc \/ ast[i].loc.source = Undefined
        THEN [ast[i] EXCEPT !.loc = NoLoc]
        ELSE ast[i]]

\* A source file: what the parser makes of its contents, its path, its source map.
SourceFile(parsed, filePath, sourceMapContents) ==
    [parsed |-> parsed, filePath |-> filePath, sourceMapContents |-> sourceMapContents]

\* LexicalEnvironment.concatenateAndParse: the File node over the statements
\* of all sources, or the first failure.
RECURSIVE concatenateAndParse(_, _, _)
concatenateAndParse(st, sources, asts) ==
    IF sources = <<>>
    THEN Exit(st, "return", <<Node("File", NoLoc)>> \o asts, <<>>)
    ELSE LET source == Head(sources)
             p == parse(source.parsed, "code", source.filePath)
         IN  IF p.channel = "throw"
             THEN IF p.thing.cls = "ThrowCompletion"
                  THEN Exit(handleError(st, "PP1004", "FatalError"), "throw",
                            Thing("FatalError", "new", <<"syntax", "error">>), <<>>)
                  ELSE Exit(st, "throw", p.thing, <<>>)
             ELSE LET node == IF source.sourceMapContents # ""
                              THEN fixup_source_locations(p.thing, source.sourceMapContents)
                              ELSE p.thing
                  IN  concatenateAndParse(st, Tail(sources),
                                          asts \o Tail(fixup_filenames(node)))

Leave_OnReturnOnly(context, exit) ==
    IF exit.channel = "throw" THEN exit
    ELSE LET p == popContext(exit.st, context)
         IN  IF p.ok
             THEN [exit EXCEPT !.st = p.st, !.steps = @ \o <<"popContext">>]
             ELSE Exit(p.st, "throw", InvariantViolation, exit.steps)

\* try { ... } finally { this.realm.popContext(context); }
Leave(context, exit) ==
    LET p == popContext(exit.st, context)
    IN  IF p.ok
        THEN [exit EXCEPT !.st = p.st, !.steps = @ \o <<"popContext">>]
        ELSE Exit(p.st, "throw", InvariantViolation, exit.steps)

\* let context = new ExecutionContext(); ...; this.realm.pushContext(context);
Enter(st) ==
    LET context == ExecutionContext(st.contexts + 1)
    IN  [context |-> context,
         st |-> pushContext([st EXCEPT !.contexts = @ + 1], context)]

\* if (res instanceof AbruptCompletion) return res; return GetValue(this.realm, res);
ReturnValue(exit) ==
    IF exit.channel = "throw" \/ exit.thing.cls \in AbruptCompletions
    THEN exit
    ELSE GetValue(exit.st, exit.thing, exit.steps)

\* the onParse callbacks: none, one that returns, one that throws
OnParse == {"undefined", "returns", "throws"}

\* LexicalEnvironment.executeSources
executeSources(st, sources, onParse, b) ==
    LET e == Enter(st)
        entered == <<"pushContext">>
        parsed == concatenateAndParse(e.st, sources, <<>>)
    IN  IF parsed.channel = "throw"
        THEN Leave(e.context, [parsed EXCEPT !.steps = entered \o <<"parse">>])
        ELSE IF onParse = "throws"
        THEN Leave(e.context, Exit(parsed.st, "throw", Thing("Error", "onParse", <<>>),
                                   entered \o <<"parse", "onParse">>))
        ELSE LET res == evaluateCompletion(parsed.st, parsed.thing[1], b.ev, b.expired)
             IN  ReturnValue(Leave(e.context,
                                   [res EXCEPT !.steps = entered \o <<"parse">> \o @]))

\* realm.partialEvaluators: the node types that have a partial evaluator
partialEvaluators == {"File"}

\* LexicalEnvironment.partiallyEvaluate and partiallyEvaluateCompletion
partiallyEvaluateCompletion(st, ast, ev) ==
    IF ast.type \notin partialEvaluators
    THEN Exit(st, "throw", Thing("TypeError", "new", <<"Unsupported", "node", "type">>), <<>>)
    ELSE LET s1 == Invoke(st, ev)
             invoked == <<"partialEvaluator">>
         IN  IF ev.channel = "return" \/ ev.thing.cls \in Completions
             THEN Exit(s1, "return", ev.thing, invoked)
             ELSE IF ev.thing.cls \in Errors
             THEN Exit(s1, "throw", ev.thing, invoked)
             ELSE Exit(s1, "throw", Thing("FatalError", "new", <<ev.thing.cls, ev.thing.id>>),
                       invoked)

\* LexicalEnvironment.partiallyEvaluateCompletionDeref
partiallyEvaluateCompletionDeref(st, ast, ev) ==
    LET res == partiallyEvaluateCompletion(st, ast, ev)
    IN  IF res.channel = "return" THEN GetValue(res.st, res.thing, res.steps) ELSE res

\* LexicalEnvironment.executePartialEvaluator
executePartialEvaluator(st, sources, ev) ==
    LET parsed == concatenateAndParse(st, sources, <<>>)
    IN  IF parsed.channel = "throw"
        THEN [parsed EXCEPT !.steps = <<"parse">>]
        ELSE LET e == Enter(parsed.st)
                 res == partiallyEvaluateCompletionDeref(e.st, parsed.thing[1], ev)
                 left == Leave(e.context,
                               [res EXCEPT !.steps = <<"parse", "pushContext">> \o @])
             IN  IF left.channel = "throw" \/ left.thing.cls \in AbruptCompletions
                 THEN left
                 ELSE [left EXCEPT !.thing = Thing("Code", "generate", <<>>)]

\* LexicalEnvironment.execute
execute(st, parsed, filename, map, onParse, b) ==
    LET e == Enter(st)
        entered == <<"pushContext">>
        p == parse(parsed, "code", filename)
    IN  IF p.channel = "throw"
        THEN Leave(e.context,
                   Exit(e.st, IF p.thing.cls = "ThrowCompletion" THEN "return" ELSE "throw",
                        p.thing, entered \o <<"parse">>))
        ELSE IF onParse = "throws"
        THEN Leave(e.context, Exit(e.st, "throw", Thing("Error", "onParse", <<>>),
                                   entered \o <<"parse", "onParse">>))
        ELSE LET ast == fixup_filenames(IF map # "" THEN fixup_source_locations(p.thing, map)
                                                     ELSE p.thing)
                 res == evaluateCompletion(e.st, ast[1], b.ev, b.expired)
             IN  ReturnValue(Leave(e.context,
                                   [res EXCEPT !.steps = entered \o <<"parse">> \o @]))

\* ---- the calls made, and their inputs ----

FileAst == <<Node("File", Loc("l1", Undefined))>>
Parsed(ast) == Exit(<<>>, "return", ast, <<>>)
Evaluates == Behaviour(Evaluation("return", Thing("Value", "v", <<>>), FALSE, NoLoc), FALSE)

\* the nodes handed to evaluate, evaluateAbstract and evaluateCompletion
EvalInputs ==
    {[ast |-> Node("File", Loc("l1", "a.js")), b |-> b] : b \in Behaviours} \cup
    {[ast |-> Node("Unsupported", Loc("l2", "a.js")), b |-> Behaviour(Evaluates.ev, x)] :
        x \in BOOLEAN}

ExecuteInputs ==
    {[parsed |-> Parsed(FileAst), filename |-> "a.js", map |-> "", onParse |-> "undefined",
      b |-> b] : b \in Behaviours} \cup
    {[parsed |-> p, filename |-> "a.js", map |-> "", onParse |-> "undefined",
      b |-> Evaluates] : p \in ParserResults} \cup
    {[parsed |-> Parsed(FileAst), filename |-> "b.js", map |-> m, onParse |-> o,
      b |-> Evaluates] : m \in SourceMaps, o \in OnParse}

SourceLists ==
    {<<SourceFile(Parsed(FileAst), "a.js", m)>> : m \in SourceMaps} \cup
    {<<SourceFile(Parsed(FileAst), "a.js", ""), SourceFile(p, "b.js", "")>> :
        p \in {Parsed(FileAst),
               Exit(<<>>, "throw", Thing("SyntaxError", "e", <<"Unexpected", "token", "(1:0)">>),
                    <<>>)}} \cup
    {<<SourceFile(Exit(<<>>, "throw", Thing(c, "e", referenceErrors[1]), <<>>), "a.js", "")>> :
        c \in {"SyntaxError", "RangeError"}}

ExecuteSourcesInputs ==
    {[sources |-> <<SourceFile(Parsed(FileAst), "a.js", "")>>, onParse |-> "undefined",
      b |-> b] : b \in Behaviours} \cup
    {[sources |-> s, onParse |-> o, b |-> Evaluates] : s \in SourceLists, o \in OnParse}

ExecutePartialEvaluatorInputs ==
    {[sources |-> <<SourceFile(Parsed(FileAst), "a.js", "")>>, ev |-> ev] :
        ev \in Evaluations} \cup
    {[sources |-> s, ev |-> Evaluates.ev] : s \in SourceLists}

NoLexOp == [op |-> "none", channel |-> "return", thing |-> Nothing, steps |-> <<>>,
            in |-> <<>>]

LexOp(op, exit, in) ==
    [op |-> op, channel |-> exit.channel, thing |-> exit.thing, steps |-> exit.steps,
     in |-> in]

\* Installs the realm state a call left behind.
LexInstall(exit, op) ==
    /\ nlops' = nlops + 1
    /\ contextStack' = exit.st.contextStack
    /\ currentLocation' = exit.st.currentLocation
    /\ handled' = exit.st.handled
    /\ contexts' = exit.st.contexts
    /\ llast' = op
    /\ UNCHANGED <<envVars, forVars, genVars, globVars>>

DoParse ==
    /\ nlops < MaxLexOps
    /\ \E parsed \in ParserResults, filename \in Filenames :
        \E exit \in {parse(parsed, "code", filename)} :
            LexInstall([exit EXCEPT !.st = LexState],
                       LexOp("parse", exit, [parsed |-> parsed, filename |-> filename]))

DoEvaluateAbstract ==
    /\ nlops < MaxLexOps
    /\ \E in \in EvalInputs :
        \E exit \in {evaluateAbstract(LexState, in.ast, in.b.ev, in.b.expired)} :
            LexInstall(exit, LexOp("evaluateAbstract", exit, in))

DoEvaluate ==
    /\ nlops < MaxLexOps
    /\ \E in \in EvalInputs :
        \E exit \in {evaluate(LexState, in.ast, in.b.ev, in.b.expired)} :
            LexInstall(exit, LexOp("evaluate", exit, in))

DoEvaluateCompletion ==
    /\ nlops < MaxLexOps
    /\ \E in \in EvalInputs :
        \E exit \in {evaluateCompletion(LexState, in.ast, in.b.ev, in.b.expired)} :
            LexInstall(exit, LexOp("evaluateCompletion", exit, in))

DoExecute ==
    /\ nlops < MaxLexOps
    /\ \E in \in ExecuteInputs :
        \E exit \in {execute(LexState, in.parsed, in.filename, in.map, in.onParse, in.b)} :
            LexInstall(exit, LexOp("execute", exit, in))

DoExecuteSources ==
    /\ nlops < MaxLexOps
    /\ \E in \in ExecuteSourcesInputs :
        \E exit \in {executeSources(LexState, in.sources, in.onParse, in.b)} :
            LexInstall(exit, LexOp("executeSources", exit, in))

DoExecutePartialEvaluator ==
    /\ nlops < MaxLexOps
    /\ \E in \in ExecutePartialEvaluatorInputs :
        \E exit \in {executePartialEvaluator(LexState, in.sources, in.ev)} :
            LexInstall(exit, LexOp("executePartialEvaluator", exit, in))

\* A realm between calls: no context, or one context that may hold a saved
\* possibly-normal completion.
LexInit ==
    /\ contextStack \in {<<>>, <<ExecutionContext(1)>>,
                         <<[ExecutionContext(1) EXCEPT !.savedCompletion = SavedCompletion]>>}
    /\ currentLocation = NoLoc
    /\ handled = <<>>
    /\ contexts = Len(contextStack)
    /\ llast = NoLexOp
    /\ nlops = 0

\* the realm while only other parts run
LexIdle ==
    /\ contextStack = <<>>
    /\ currentLocation = <<>>
    /\ handled = <<>>
    /\ contexts = 0
    /\ llast = <<>>
    /\ nlops = 0

LexNext ==
    \/ DoParse
    \/ DoEvaluateAbstract
    \/ DoEvaluate
    \/ DoEvaluateCompletion
    \/ DoExecute
    \/ DoExecuteSources
    \/ DoExecutePartialEvaluator

\* ------------------------------------------------------------------------
\* The global environment record
\* ------------------------------------------------------------------------
MaxGlobalOps == 3

\* The state the operations of the global record work on.
GlobalState ==
    [DeclarativeRecord |-> DeclarativeRecord, object |-> globalObject, VarNames |-> VarNames]

\* An own property of the global object, and the absence of one.
Property(value, writable, enumerable, configurable) ==
    [present |-> TRUE, value |-> value, writable |-> writable, enumerable |-> enumerable,
     configurable |-> configurable]
NoProperty ==
    [present |-> FALSE, value |-> Undefined, writable |-> FALSE, enumerable |-> FALSE,
     configurable |-> FALSE]

\* A property descriptor handed to DefinePropertyOrThrow: has holds the
\* names of the fields that are present.
PropertyDescriptor(has, value, writable, enumerable, configurable) ==
    [has |-> has, value |-> value, writable |-> writable, enumerable |-> enumerable,
     configurable |-> configurable]

\* HasOwnProperty(realm, O, P)
HasOwnProperty(O, P) == O.props[P].present

\* HasProperty(realm, O, P): own, or on the prototype chain
HasProperty(O, P) == HasOwnProperty(O, P) \/ P \in O.inherited

\* IsExtensible(realm, O)
IsExtensible(O) == O.extensible

\* Get(realm, O, P)
Get(O, P) ==
    IF HasOwnProperty(O, P) THEN O.props[P].value
    ELSE IF P \in O.inherited THEN "inherited" ELSE Undefined

\* ValidateAndApplyPropertyDescriptor for data properties: the object it
\* leaves and whether it succeeded
DefineOwnProperty(O, P, desc) ==
    LET current == O.props[P]
        field(f, default) == IF f \in desc.has THEN desc[f] ELSE default
    IN  IF ~current.present
        THEN IF ~O.extensible THEN [O |-> O, ok |-> FALSE]
             ELSE [O |-> [O EXCEPT !.props[P] =
                             Property(field("value", Undefined), field("writable", FALSE),
                                      field("enumerable", FALSE),
                                      field("configurable", FALSE))],
                   ok |-> TRUE]
        ELSE IF \/ ~current.configurable /\ "configurable" \in desc.has /\ desc.configurable
                \/ /\ ~current.configurable /\ "enumerable" \in desc.has
                   /\ desc.enumerable # current.enumerable
                \/ /\ ~current.configurable /\ ~current.writable
                   /\ \/ "writable" \in desc.has /\ desc.writable
                      \/ "value" \in desc.has /\ desc.value # current.value
        THEN [O |-> O, ok |-> FALSE]
        ELSE [O |-> [O EXCEPT !.props[P] =
                        Property(field("value", current.value),
                                 field("writable", current.writable),
                                 field("enumerable", current.enumerable),
                                 field("configurable", current.configurable))],
              ok |-> TRUE]

\* DefinePropertyOrThrow(realm, O, P, desc)
DefinePropertyOrThrow(O, P, desc) ==
    LET r == DefineOwnProperty(O, P, desc)
    IN  IF r.ok THEN [O |-> r.O, outcome |-> "normal", ret |-> TRUE]
        ELSE [O |-> O, outcome |-> "TypeError", ret |-> Undefined]

\* Set(realm, O, P, V, Throw)
Set(O, P, V, Throw) ==
    LET current == O.props[P]
        success == IF current.present THEN current.writable ELSE O.extensible
        O1 == IF ~success THEN O
              ELSE IF current.present THEN [O EXCEPT !.props[P].value = V]
              ELSE [O EXCEPT !.props[P] = Property(V, TRUE, TRUE, TRUE)]
    IN  IF ~success /\ Throw THEN [O |-> O, outcome |-> "TypeError", ret |-> Undefined]
        ELSE [O |-> O1, outcome |-> "normal", ret |-> success]

\* O.$Delete(P)
Delete(O, P) ==
    IF ~O.props[P].present THEN [O |-> O, outcome |-> "normal", ret |-> TRUE]
    ELSE IF O.props[P].configurable
    THEN [O |-> [O EXCEPT !.props[P] = NoProperty], outcome |-> "normal", ret |-> TRUE]
    ELSE [O |-> O, outcome |-> "normal", ret |-> FALSE]

\* the global state after a call on the declarative record or on the object
OnDeclarativeRecord(st, c) ==
    Completion([st EXCEPT !.DeclarativeRecord = c.st], c.outcome, c.ret)
OnObject(st, r) == Completion([st EXCEPT !.object = r.O], r.outcome, r.ret)

\* ObjectEnvironmentRecord.HasBinding, for a record that is no with-environment
ObjectHasBinding(st, N) == HasProperty(st.object, N)

\* ObjectEnvironmentRecord.CreateMutableBinding
ObjectCreateMutableBinding(st, N, D) ==
    OnObject(st, DefinePropertyOrThrow(st.object, N,
                    PropertyDescriptor({"value", "writable", "enumerable", "configurable"},
                                       Undefined, TRUE, TRUE, D)))

\* ObjectEnvironmentRecord.SetMutableBinding
ObjectSetMutableBinding(st, N, V, S) == OnObject(st, Set(st.object, N, V, S))

\* ObjectEnvironmentRecord.InitializeBinding
ObjectInitializeBinding(st, N, V) == ObjectSetMutableBinding(st, N, V, FALSE)

\* ObjectEnvironmentRecord.GetBindingValue
ObjectGetBindingValue(st, N, S) ==
    IF ~HasProperty(st.object, N)
    THEN IF ~S THEN Completion(st, "normal", Undefined)
         ELSE Completion(st, "ReferenceError", Undefined)
    ELSE Completion(st, "normal", Get(st.object, N))

\* ObjectEnvironmentRecord.DeleteBinding
ObjectDeleteBinding(st, N) == OnObject(st, Delete(st.object, N))

\* ECMA262 8.1.1.4.1
GlobalHasBinding(st, N) ==
    IF HasBinding(st.DeclarativeRecord, N) THEN TRUE ELSE ObjectHasBinding(st, N)

\* ECMA262 8.1.1.4.2
GlobalCreateMutableBinding(st, N, D) ==
    IF HasBinding(st.DeclarativeRecord, N) THEN Completion(st, "TypeError", Undefined)
    ELSE OnDeclarativeRecord(st, CreateMutableBinding(st.DeclarativeRecord, N, D))

\* ECMA262 8.1.1.4.3
GlobalCreateImmutableBinding(st, N, S) ==
    IF HasBinding(st.DeclarativeRecord, N) THEN Completion(st, "TypeError", Undefined)
    ELSE OnDeclarativeRecord(st, CreateImmutableBinding(st.DeclarativeRecord, N, S))

\* ECMA262 8.1.1.4.4
GlobalInitializeBinding(st, N, V) ==
    IF HasBinding(st.DeclarativeRecord, N)
    THEN OnDeclarativeRecord(st, InitializeBinding(st.DeclarativeRecord, N, V))
    ELSE ObjectInitializeBinding(st, N, V)

GlobalSetMutableBinding_ObjectToo(st, N, V, S) ==
    IF HasBinding(st.DeclarativeRecord, N)
    THEN OnDeclarativeRecord(ObjectSetMutableBinding(st, N, V, FALSE).st,
                             SetMutableBinding(st.DeclarativeRecord, N, V, S))
    ELSE ObjectSetMutableBinding(st, N, V, S)

\* ECMA262 8.1.1.4.5
GlobalSetMutableBinding(st, N, V, S) ==
    IF HasBinding(st.DeclarativeRecord, N)
    THEN OnDeclarativeRecord(st, SetMutableBinding(st.DeclarativeRecord, N, V, S))
    ELSE ObjectSetMutableBinding(st, N, V, S)

\* ECMA262 8.1.1.4.6
GlobalGetBindingValue(st, N, S) ==
    IF HasBinding(st.DeclarativeRecord, N)
    THEN OnDeclarativeRecord(st, GetBindingValue(st.DeclarativeRecord, N, S))
    ELSE ObjectGetBindingValue(st, N, S)

\* varNames.splice(varNames.indexOf(N), 1)
RemoveFirst(varNames, N) ==
    LET i == CHOOSE k \in 1..Len(varNames) :
                 varNames[k] = N /\ \A j \in 1..(k - 1) : varNames[j] # N
    IN  SubSeq(varNames, 1, i - 1) \o SubSeq(varNames, i + 1, Len(varNames))

\* varNames.indexOf(N) >= 0
Contains(varNames, N) == \E k \in 1..Len(varNames) : varNames[k] = N

GlobalDeleteBinding_IgnoresStatus(st, N) ==
    IF HasBinding(st.DeclarativeRecord, N)
    THEN OnDeclarativeRecord(st, DeleteBinding(st.DeclarativeRecord, N))
    ELSE IF HasOwnProperty(st.object, N)
    THEN LET status == ObjectDeleteBinding(st, N)
         IN  IF Contains(st.VarNames, N)
             THEN [status EXCEPT !.st.VarNames = RemoveFirst(@, N)]
             ELSE status
    ELSE Completion(st, "normal", TRUE)

\* ECMA262 8.1.1.4.7
GlobalDeleteBinding(st, N) ==
    IF HasBinding(st.DeclarativeRecord, N)
    THEN OnDeclarativeRecord(st, DeleteBinding(st.DeclarativeRecord, N))
    ELSE IF HasOwnProperty(st.object, N)
    THEN LET status == ObjectDeleteBinding(st, N)
         IN  IF status.ret /\ Contains(st.VarNames, N)
             THEN [status EXCEPT !.st.VarNames = RemoveFirst(@, N)]
             ELSE status
    ELSE Completion(st, "normal", TRUE)

\* ECMA262 8.1.1.4.12
HasVarDeclaration(st, N) == Contains(st.VarNames, N)

DeclareVarName_Always(st, N) == [st EXCEPT !.VarNames = Append(@, N)]

\* if (varDeclaredNames.indexOf(N) < 0) varDeclaredNames.push(N)
DeclareVarName(st, N) ==
    IF Contains(st.VarNames, N) THEN st ELSE [st EXCEPT !.VarNames = Append(@, N)]

\* ECMA262 8.1.1.4.17
CreateGlobalVarBinding(st, N, D) ==
    IF ~HasOwnProperty(st.object, N) /\ IsExtensible(st.object)
    THEN LET c1 == ObjectCreateMutableBinding(st, N, D)
             c2 == ObjectInitializeBinding(c1.st, N, Undefined)
         IN  IF c1.outcome # "normal" THEN c1
             ELSE IF c2.outcome # "normal" THEN c2
             ELSE Completion(DeclareVarName(c2.st, N), "normal", Undefined)
    ELSE Completion(DeclareVarName(st, N), "normal", Undefined)

\* ECMA262 8.1.1.4.18
CreateGlobalFunctionBinding(st, N, V, D) ==
    LET existingProp == st.object.props[N]
        desc == IF ~existingProp.present \/ existingProp.configurable
                THEN PropertyDescriptor({"value", "writable", "enumerable", "configurable"},
                                        V, TRUE, TRUE, D)
                ELSE PropertyDescriptor({"value"}, V, FALSE, FALSE, FALSE)
        c1 == OnObject(st, DefinePropertyOrThrow(st.object, N, desc))
        c2 == ObjectSetMutableBinding(c1.st, N, V, FALSE)
    IN  IF c1.outcome # "normal" THEN c1
        ELSE Completion(DeclareVarName(c2.st, N), "normal", Undefined)

\* ---- the calls made on the global record ----

GlobalInstall(c, op) ==
    /\ nxops' = nxops + 1
    /\ DeclarativeRecord' = c.st.DeclarativeRecord
    /\ globalObject' = c.st.object
    /\ VarNames' = c.st.VarNames
    /\ xlast' = op
    /\ UNCHANGED <<envVars, forVars, genVars, lexVars>>

\* a query: nothing but the record of the call changes
GlobalQuery(op, N, ret) ==
    /\ nxops' = nxops + 1
    /\ xlast' = [op |-> op, N |-> N, V |-> Undefined, S |-> FALSE, outcome |-> "normal",
                 ret |-> ret]
    /\ UNCHANGED <<DeclarativeRecord, globalObject, VarNames, envVars, forVars, genVars,
                   lexVars>>

DoGlobalHasBinding ==
    /\ nxops < MaxGlobalOps
    /\ \E N \in Names : GlobalQuery("HasBinding", N, GlobalHasBinding(GlobalState, N))

DoHasVarDeclaration ==
    /\ nxops < MaxGlobalOps
    /\ \E N \in Names : GlobalQuery("HasVarDeclaration", N, HasVarDeclaration(GlobalState, N))

DoGlobalCreateMutableBinding ==
    /\ nxops < MaxGlobalOps
    /\ \E N \in Names, D \in BOOLEAN :
        \E c \in {GlobalCreateMutableBinding(GlobalState, N, D)} :
            GlobalInstall(c, Op("CreateMutableBinding", N, Undefined, D, c))

DoGlobalCreateImmutableBinding ==
    /\ nxops < MaxGlobalOps
    /\ \E N \in Names, S \in BOOLEAN :
        \E c \in {GlobalCreateImmutableBinding(GlobalState, N, S)} :
            GlobalInstall(c, Op("CreateImmutableBinding", N, Undefined, S, c))

DoGlobalInitializeBinding ==
    /\ nxops < MaxGlobalOps
    /\ \E N \in Names :
        \E c \in {GlobalInitializeBinding(GlobalState, N, "v1")} :
            GlobalInstall(c, Op("InitializeBinding", N, "v1", FALSE, c))

DoGlobalSetMutableBinding ==
    /\ nxops < MaxGlobalOps
    /\ \E N \in Names, S \in BOOLEAN :
        \E c \in {GlobalSetMutableBinding(GlobalState, N, "v2", S)} :
            GlobalInstall(c, Op("SetMutableBinding", N, "v2", S, c))

DoGlobalGetBindingValue ==
    /\ nxops < MaxGlobalOps
    /\ \E N \in Names, S \in BOOLEAN :
        \E c \in {GlobalGetBindingValue(GlobalState, N, S)} :
            GlobalInstall(c, Op("GetBindingValue", N, Undefined, S, c))

DoGlobalDeleteBinding ==
    /\ nxops < MaxGlobalOps
    /\ \E N \in Names :
        \E c \in {GlobalDeleteBinding(GlobalState, N)} :
            GlobalInstall(c, Op("DeleteBinding", N, Undefined, FALSE, c))

DoCreateGlobalVarBinding ==
    /\ nxops < MaxGlobalOps
    /\ \E N \in Names, D \in BOOLEAN :
        \E c \in {CreateGlobalVarBinding(GlobalState, N, D)} :
            GlobalInstall(c, Op("CreateGlobalVarBinding", N, Undefined, D, c))

DoCreateGlobalFunctionBinding ==
    /\ nxops < MaxGlobalOps
    /\ \E N \in Names, D \in BOOLEAN :
        \E c \in {CreateGlobalFunctionBinding(GlobalState, N, "v1", D)} :
            GlobalInstall(c, Op("CreateGlobalFunctionBinding", N, "v1", D, c))

\* the global object before any code ran: "a" may be an own property put
\* there by the host, "b" a property of its prototype
GlobalObjects ==
    {[props |-> [N \in Names |-> IF N = "a" THEN p ELSE NoProperty],
      extensible |-> e, inherited |-> {"b"}] :
        p \in {NoProperty, Property("host", TRUE, TRUE, TRUE),
               Property("host", FALSE, TRUE, FALSE)},
        e \in BOOLEAN}

GlobalInit ==
    /\ DeclarativeRecord = [bindings |-> <<>>, heap |-> <<>>, modLog |-> <<>>]
    /\ globalObject \in GlobalObjects
    /\ VarNames = <<>>
    /\ xlast = NoOp
    /\ nxops = 0

GlobalNext ==
    \/ DoGlobalHasBinding
    \/ DoHasVarDeclaration
    \/ DoGlobalCreateMutableBinding
    \/ DoGlobalCreateImmutableBinding
    \/ DoGlobalInitializeBinding
    \/ DoGlobalSetMutableBinding
    \/ DoGlobalGetBindingValue
    \/ DoGlobalDeleteBinding
    \/ DoCreateGlobalVarBinding
    \/ DoCreateGlobalFunctionBinding

\* the global environment record while only other parts run
GlobalIdle ==
    /\ DeclarativeRecord = <<>>
    /\ globalObject = <<>>
    /\ VarNames = <<>>
    /\ xlast = <<>>
    /\ nxops = 0

vars == <<envVars, forVars, genVars, lexVars, globVars>>

\* only the environment record runs
SpecEnvInit ==
    /\ EnvInit
    /\ ForInIdle
    /\ GenIdle
    /\ LexIdle
    /\ GlobalIdle

SpecEnv == SpecEnvInit /\ [][EnvNext]_vars

\* the environment record while only the for-in evaluator runs
EnvIdle ==
    /\ bindings = <<>>
    /\ heap = <<>>
    /\ modLog = <<>>
    /\ ThisBindingStatus = "lexical"
    /\ ThisValue = Undefined
    /\ speculating = FALSE
    /\ saved = <<>>
    /\ stored = <<>>
    /\ last = <<>>
    /\ nops = 0

\* only the for-in evaluator runs
SpecForInInit ==
    /\ ForInInit
    /\ EnvIdle
    /\ GenIdle
    /\ LexIdle
    /\ GlobalIdle

SpecForIn == SpecForInInit /\ [][ForInNext]_vars

\* only the generators run
SpecGenInit ==
    /\ GenInit
    /\ EnvIdle
    /\ ForInIdle
    /\ LexIdle
    /\ GlobalIdle

SpecGen == SpecGenInit /\ [][GenNext]_vars

\* only the LexicalEnvironment methods run
SpecLexInit ==
    /\ LexInit
    /\ EnvIdle
    /\ ForInIdle
    /\ GenIdle
    /\ GlobalIdle

SpecLex == SpecLexInit /\ [][LexNext]_vars

\* only the global environment record runs
SpecGlobalInit ==
    /\ GlobalInit
    /\ EnvIdle
    /\ ForInIdle
    /\ GenIdle
    /\ LexIdle

SpecGlobal == SpecGlobalInit /\ [][GlobalNext]_vars

\* ------------------------------------------------------------------------
\* Properties of the environment records
\* ------------------------------------------------------------------------

DeclarativeOps == {"CreateMutableBinding", "CreateImmutableBinding", "InitializeBinding",
                   "SetMutableBinding", "DeleteBinding"}

\* the entries the last operation appended to the log
NewEntries == {modLog'[i] : i \in (Len(modLog) + 1)..Len(modLog')}

\* C1: after a speculative evaluation is discarded, replaying the log in
\* reverse leaves the record (binding map, each binding's flags and value,
\* this-binding status and value) exactly as it was when the evaluation began.
C1_RollbackNeutral ==
    last.op = "discard" => Observable(EnvState) = saved.obs

\* C2: whenever one of the five declarative operations changes, creates or
\* removes a binding, that operation has appended a log entry for the binding
\* holding the binding as it was before the change.
C2_LoggedBeforeChange ==
    [][last'.op \in DeclarativeOps =>
        /\ \A id \in 1..Len(heap) :
              (heap'[id] # heap[id]) =>
                  \E e \in NewEntries : e.binding = id /\ e.prior = heap[id]
        /\ \A id \in (Len(heap) + 1)..Len(heap') :
              \E e \in NewEntries :
                  /\ e.binding = id
                  /\ e.prior.value = Undefined
                  /\ ~e.prior.initialized
        /\ \A N \in (DOMAIN bindings) \ (DOMAIN bindings') :
              \E e \in NewEntries : e.binding = bindings[N] /\ e.prior = heap[bindings[N]]
     ]_vars

C2_Witness ==
    /\ last.op = "SetMutableBinding"
    /\ last.outcome = "normal"
    /\ modLog # <<>>
    /\ modLog[Len(modLog)].prior.initialized
    /\ modLog[Len(modLog)].prior.value # heap[modLog[Len(modLog)].binding].value

\* C3: a strict SetMutableBinding on a name the record does not bind throws
\* ReferenceError, creates no binding and logs nothing.
C3_StrictSetOfMissing ==
    [][(last'.op = "SetMutableBinding" /\ last'.S /\ last'.N \notin DOMAIN bindings) =>
        /\ last'.outcome = "ReferenceError"
        /\ bindings' = bindings
        /\ heap' = heap
        /\ modLog' = modLog
     ]_vars

C3_Witness ==
    /\ last.op = "SetMutableBinding"
    /\ last.S
    /\ last.N \notin DOMAIN bindings
    /\ last.outcome = "ReferenceError"

\* C4: every binding present in the record that is marked initialized has a
\* defined value.
C4_InitializedHasValue ==
    \A N \in DOMAIN bindings :
        heap[bindings[N]].initialized => heap[bindings[N]].value # Undefined

C4_Witness ==
    \E N \in DOMAIN bindings :
        /\ heap[bindings[N]].initialized
        /\ last.op \in {"InitializeBinding", "SetMutableBinding", "DeleteBinding"}

\* C5: GetBindingValue on an uninitialized binding throws ReferenceError
\* whatever S is and changes nothing; on an initialized binding it returns
\* the value last stored by InitializeBinding or SetMutableBinding.
C5_GetBindingValue ==
    [][(last'.op = "GetBindingValue" /\ last'.N \in DOMAIN bindings) =>
        LET id == bindings[last'.N] IN
        /\ <<bindings, heap, modLog, ThisBindingStatus, ThisValue>>'
             = <<bindings, heap, modLog, ThisBindingStatus, ThisValue>>
        /\ ~heap[id].initialized => last'.outcome = "ReferenceError"
        /\ heap[id].initialized =>
              /\ last'.outcome = "normal"
              /\ last'.ret = stored[id]
              /\ last'.ret \in Values
     ]_vars

C5_Witness ==
    /\ last.op = "GetBindingValue"
    /\ ~last.S
    /\ last.N \in DOMAIN bindings
    /\ ~heap[bindings[last.N]].initialized
    /\ last.outcome = "ReferenceError"

\* C6: a non-strict SetMutableBinding on a name the record does not bind
\* creates the binding: afterwards HasBinding(N) holds and the binding is
\* initialized, mutable, deletable and holds V.
C6_SloppySetOfMissing ==
    [][(last'.op = "SetMutableBinding" /\ ~last'.S /\ last'.N \notin DOMAIN bindings) =>
        /\ last'.outcome = "normal"
        /\ HasBinding(EnvState', last'.N)
        /\ heap'[bindings'[last'.N]] =
              [value |-> last'.V, initialized |-> TRUE, mutable |-> TRUE,
               deletable |-> TRUE, strict |-> FALSE]
     ]_vars

C6_Witness ==
    /\ last.op = "SetMutableBinding"
    /\ ~last.S
    /\ last.outcome = "normal"
    /\ modLog # <<>>
    /\ ~modLog[Len(modLog)].prior.initialized
    /\ HasBinding(EnvState, last.N)
    /\ heap[bindings[last.N]].value = last.V


\* ------------------------------------------------------------------------
\* Properties of the for-in evaluator
\* ------------------------------------------------------------------------

\* C7: a for-in statement whose iterated expression evaluates to an abstract
\* value that is not both partial and simple calls the error handler exactly
\* once, with code PP0013 and severity FatalError at the iterated expression,
\* and throws FatalError; the body is not evaluated, no generator entry is
\* appended and no object changes.
C7_AbstractNotSimplePartial ==
    [][(/\ flast'.keyResult.abstract
        /\ ~(isPartialObject(ForState, flast'.keyResult)
             /\ isSimpleObject(ForState, flast'.keyResult))) =>
        /\ diagnostics' = Append(diagnostics,
                                 [code |-> "PP0013", severity |-> "FatalError",
                                  loc |-> "right.loc"])
        /\ flast'.outcome = "FatalError"
        /\ flast'.evaluated = 0
        /\ ~flast'.accepted
        /\ genBody' = genBody
        /\ objs' = objs
        /\ lexicalEnvironment' = lexicalEnvironment
     ]_vars

C7_Witness ==
    /\ flast.head = "var"
    /\ flast.keyResult.abstract
    /\ flast.keyResult.elems = {"o1"}
    /\ objs["o1"].partial
    /\ ~objs["o1"].simple
    /\ flast.outcome = "FatalError"
    /\ Len(diagnostics) = 1
    /\ diagnostics[1].code = "PP0013"

\* C8 as stated: a residual loop is accepted only if the source object read
\* in the body is the iterated object itself.
C8_SourceIsIterated ==
    flast.accepted => flast.body.source = IteratedObject(flast.keyResult)

\* C8 as amended: a residual loop is accepted only if the body is
\* target[k] = source[k] with source a concrete object read through the loop
\* variable; the source need not be the iterated object. The generator entry
\* names the iterated object, the target and the source, and the known
\* properties of the source become properties of the target only when the
\* source is the iterated object.
C8_SourceReadThroughLoopVariable ==
    [][flast'.accepted =>
        LET o == IteratedObject(flast'.keyResult)
            t == flast'.body.target
            s == flast'.body.source
        IN  /\ flast'.body.kind = "copy"
            /\ genBody' = Append(genBody, ForInEntry(o, t, s))
            /\ s # o => objs'[t].props = objs[t].props
            /\ s = o => \A k \in {"x", "y"} :
                            objs'[t].props[k] = IF objs[s].props[k] # Absent
                                                THEN objs[s].props[k]
                                                ELSE objs[t].props[k]
     ]_vars

C8_Witness ==
    /\ flast.accepted
    /\ flast.keyResult.elems = {"o1"}
    /\ flast.body.source = "o2"
    /\ Len(genBody) = 1
    /\ genBody[1].args[1] = "o1"
    /\ genBody[1].args[3] = "o2"

C11_CopiesAndEntry ==
    [][flast'.accepted =>
        LET t == flast'.body.target
            s == flast'.body.source
        IN  /\ \A k \in {"x", "y"} :
                  objs[s].props[k] # Absent => objs'[t].props[k] = objs[s].props[k]
            /\ genBody' = Append(genBody,
                                 ForInEntry(IteratedObject(flast'.keyResult), t, s))
            /\ flast'.outcome = "Value"
            /\ flast'.value = Undefined
     ]_vars

\* C11 as amended: an accepted loop appends exactly one for-in entry and has
\* the value undefined; when the source is the iterated object, every known
\* enumerable key of the source is set on the target with the source's value
\* and the target's other properties stay; when the source is another object
\* nothing is copied.
C11_CopiesWhenSourceIterated ==
    [][flast'.accepted =>
        LET o == IteratedObject(flast'.keyResult)
            t == flast'.body.target
            s == flast'.body.source
        IN  /\ genBody' = Append(genBody, ForInEntry(o, t, s))
            /\ flast'.outcome = "Value"
            /\ flast'.value = Undefined
            /\ objs'[t].simple /\ objs'[t].partial
            /\ \A k \in {"x", "y"} :
                  objs'[t].props[k] =
                      IF s = o /\ objs[s].props[k] # Absent
                      THEN objs[s].props[k]
                      ELSE objs[t].props[k]
            /\ \A u \in Objects \ {t} : objs'[u] = objs[u]
     ]_vars

C11_Witness ==
    /\ flast.accepted
    /\ flast.keyResult.elems = {"o1"}
    /\ flast.body.source = "o1"
    /\ flast.body.target = "o2"
    /\ objs["o1"].props["x"] = "p1"
    /\ objs["o2"].props["x"] = "p1"
    /\ objs["o2"].props["y"] = "p2"
    /\ Len(genBody) = 1

\* the body is rejected: the try block of emitResidualLoopIfSafe, entered
\* with the block environment current, is left without a return
Rejected(st, head, ob, body) ==
    emitResidualLoopTry([st EXCEPT !.lexicalEnvironment = NewDeclarativeEnvironment(@)],
                        head, ob, body).outcome = "rejected"

\* C12 as stated: when the speculatively evaluated body of a for-in over a
\* partial and simple object has not the accepted shape, the diagnostic
\* raised has severity RecoverableError.
C12_RejectionRecoverable ==
    (/\ flast.head = "var"
     /\ flast.evaluated = 1
     /\ ~flast.accepted
     /\ diagnostics # <<>>
     /\ diagnostics[Len(diagnostics)].code = "PP0013")
        => diagnostics[Len(diagnostics)].severity = "RecoverableError"

\* C12 as amended: when the speculatively evaluated body of a for-in over a
\* partial and simple object completes without the accepted shape, the error
\* handler is called once with code PP0013 and severity FatalError at the
\* iterated expression and FatalError is thrown; nothing else changes.
C12_RejectionFatal ==
    [][(/\ flast'.head = "var"
        /\ isPartialObject(ForState, flast'.keyResult)
        /\ isSimpleObject(ForState, flast'.keyResult)
        /\ Rejected(ForState, flast'.head, flast'.keyResult, flast'.body)) =>
        /\ diagnostics' = Append(diagnostics,
                                 [code |-> "PP0013", severity |-> "FatalError",
                                  loc |-> "right.loc"])
        /\ flast'.outcome = "FatalError"
        /\ genBody' = genBody
        /\ objs' = objs
        /\ lexicalEnvironment' = lexicalEnvironment
     ]_vars

C12_Witness ==
    /\ flast.head = "var"
    /\ flast.body.kind = "named"
    /\ flast.evaluated = 1
    /\ ~flast.accepted
    /\ flast.outcome = "FatalError"
    /\ Len(diagnostics) = 1
    /\ diagnostics[1].severity = "FatalError"
    /\ genBody = <<>>

C14_SerializeInOrder ==
    glast.op = "serialize" =>
        LET E == glast.events
            body == generator.body
        IN  /\ \A p \in 1..Len(E), q \in 1..Len(E) :
                  (p < q /\ E[p].ev = "emit" /\ E[q].ev = "emit") => E[p].x < E[q].x
            /\ \A p \in 1..Len(E) :
                  E[p].ev = "emit" =>
                      LET en == body[E[p].x]
                          m == Len(en.args)
                      IN  /\ p > m + 1
                          /\ E[p - 1] = Event("buildNode", E[p].x)
                          /\ \A k \in 1..m :
                                E[p - 2 - m + k] = Event("serializeValue", en.args[k])
                          /\ en.declared # NoDeclaration =>
                                p < Len(E) /\ E[p + 1] = Event("declare", en.declared)
            /\ \A p \in 1..Len(E) :
                  E[p].ev = "declare" =>
                      /\ p > 1
                      /\ E[p - 1].ev = "emit"
                      /\ body[E[p - 1].x].declared = E[p].x

C14_Witness ==
    /\ glast.op = "serialize"
    /\ Len(generator.body) = 2
    /\ generator.body[1].declared # NoDeclaration
    /\ generator.body[2].args = <<1, 1>>
    /\ Len(glast.events) = 7

\* C15: serialize skips an entry exactly when the entry is flagged pure,
\* declares a value and the context reports that value omittable; every other
\* entry is emitted exactly once.
C15_SkipsOnlyPureOmittable ==
    glast.op = "serialize" =>
        \A i \in 1..Len(generator.body) :
            Cardinality({p \in 1..Len(glast.events) :
                            glast.events[p] = Event("emit", i)})
              = IF /\ generator.body[i].isPure = "true"
                   /\ generator.body[i].declared # NoDeclaration
                   /\ generator.body[i].declared \in glast.canOmit
                THEN 0 ELSE 1

C15_Witness ==
    /\ glast.op = "serialize"
    /\ Len(generator.body) = 1
    /\ generator.body[1].isPure = "true"
    /\ generator.body[1].declared \in glast.canOmit
    /\ glast.events = <<>>

\* C16: the entry that declares a derived value precedes, in the body, every
\* entry that takes the value as an argument (the typeof invariant of derive
\* included); so when the context omits only unreferenced values, serialize
\* hands no derived value to serializeValue before it was declared.
C16_DeclaredBeforeUse ==
    /\ \A i \in 1..Len(generator.body), j \in 1..Len(generator.body) :
          (/\ generator.body[i].declared # NoDeclaration
           /\ \E k \in 1..Len(generator.body[j].args) :
                 generator.body[j].args[k] = generator.body[i].declared) => i < j
    /\ \A v \in 1..Len(abstracts) :
          \E i \in 1..Len(generator.body) : generator.body[i].declared = v
    /\ (glast.op = "serialize" /\ UnreferencedOnly(generator.body, glast.canOmit)) =>
          \A p \in 1..Len(glast.events) :
              (glast.events[p].ev = "serializeValue" /\ glast.events[p].x > Concrete) =>
                  \E q \in 1..(p - 1) : glast.events[q] = Event("declare", glast.events[p].x)

C16_Witness ==
    /\ glast.op = "serialize"
    /\ UnreferencedOnly(generator.body, glast.canOmit)
    /\ Len(generator.body) = 2
    /\ generator.body[1].declared = 1
    /\ generator.body[1].isPure = "true"
    /\ generator.body[2].statement = "invariant"
    /\ glast.events[1] = Event("buildNode", 1)
    /\ glast.events[4] = Event("serializeValue", 1)

\* C17: derive appends a typeof invariant entry for the derived value
\* whenever skipInvariant is not set, for every types domain it accepts
\* (function, string, boolean, number, symbol, object and the top type), and
\* only the declaring entry when skipInvariant is set.
C17_InvariantUnlessSkipped ==
    [][(/\ glast'.op = "derive"
        /\ glast'.outcome = "normal"
        /\ glast'.types \in {"FunctionValue", "StringValue", "BooleanValue", "NumberValue",
                             "SymbolValue", "ObjectValue", "TopValue"}) =>
        IF glast'.optionalArgs.present /\ glast'.optionalArgs.skipInvariant
        THEN Len(generator'.body) = Len(generator.body) + 1
        ELSE /\ Len(generator'.body) = Len(generator.body) + 2
             /\ generator'.body[Len(generator'.body)].statement = "invariant"
             /\ generator'.body[Len(generator'.body)].args = <<glast'.res, glast'.res>>
     ]_vars

\* C18: visitEntry delays a pure entry whose declared value can be skipped:
\* the entry is recorded as delayed and nothing else is called; for every
\* other entry the declaration, if any, is recorded first, then each argument
\* is visited in order, then each dependency generator in order.
C18_VisitEntry ==
    glast.op = "visitEntry" =>
        LET E == glast.events
            en == glast.entry
            d == IF en.declared # NoDeclaration THEN 1 ELSE 0
            m == Len(en.args)
        IN  IF en.isPure = "true" /\ en.declared # NoDeclaration /\ en.declared \in glast.canOmit
            THEN /\ Len(E) = 1
                 /\ E[1] = Event("recordDelayedEntry", glast.res)
            ELSE /\ \A p \in 1..Len(E) : E[p].ev # "recordDelayedEntry"
                 /\ Len(E) = d + m + Len(en.dependencies)
                 /\ d = 1 => E[1] = Event("recordDeclaration", en.declared)
                 /\ \A k \in 1..m : E[d + k] = Event("visitValue", en.args[k])
                 /\ \A k \in 1..Len(en.dependencies) :
                       E[d + m + k] = Event("visitGenerator", en.dependencies[k])

C18_Witness ==
    /\ glast.op = "visitEntry"
    /\ glast.entry.isPure = "true"
    /\ glast.entry.declared \in glast.canOmit
    /\ glast.entry.dependencies # <<>>
    /\ glast.events = <<Event("recordDelayedEntry", 1)>>

\* C19: every identifier the name generator returned is outside the
\* forbidden set and differs from every identifier it returned before; each
\* call advances the counter by the number of candidates it tried, at least one.
C19_FreshNames ==
    [][/\ \A i \in 1..Len(issued') :
             /\ issued'[i] \notin preludeGenerator'.nameGenerator.forbiddenNames
             /\ \A j \in 1..Len(issued') : i # j => issued'[i] # issued'[j]
       /\ glast'.op = "generate" =>
             /\ glast'.tried >= 1
             /\ preludeGenerator'.nameGenerator.uidCounter
                  = preludeGenerator.nameGenerator.uidCounter + glast'.tried
             /\ issued' = Append(issued, glast'.id)
     ]_vars

C19_Witness ==
    /\ glast.op = "generate"
    /\ glast.tried = 2
    /\ glast.key = <<"a", "_", "b">>
    /\ Len(issued) = 2
    /\ preludeGenerator.nameGenerator.uidCounter = 3

\* C20: memoizeReference is a cache: the first call for a key appends
\* declarations to the prelude, the last of them declaring the new identifier
\* it returns; a later call for the same key returns the identifier of the
\* first, appends nothing and takes no name from the name generator.
C20_MemoizeCaches ==
    [][glast'.op = "memoizeReference" =>
        LET key == Flat(glast'.key) IN
        IF MapHas(preludeGenerator.memoizedRefs, key)
        THEN /\ glast'.id = MapGet(preludeGenerator.memoizedRefs, key)
             /\ preludeGenerator' = preludeGenerator
             /\ issued' = issued
        ELSE /\ Len(preludeGenerator'.prelude) > Len(preludeGenerator.prelude)
             /\ preludeGenerator'.prelude[Len(preludeGenerator'.prelude)].ref = glast'.id
             /\ \A i \in 1..Len(issued) : issued[i] # glast'.id
             /\ MapHas(preludeGenerator'.memoizedRefs, key)
             /\ MapGet(preludeGenerator'.memoizedRefs, key) = glast'.id
             /\ preludeGenerator'.nameGenerator.uidCounter
                  > preludeGenerator.nameGenerator.uidCounter
     ]_vars

C20_Witness ==
    /\ glast.op = "memoizeReference"
    /\ glast.key = <<"Object", ".", "prototype">>
    /\ glast.res = 0
    /\ Len(preludeGenerator.prelude) = 3
    /\ Len(issued) = 3
    /\ glast.id = preludeGenerator.prelude[3].ref

\* ------------------------------------------------------------------------
\* Properties of LexicalEnvironment
\* ------------------------------------------------------------------------

Executes == {"execute", "executeSources", "executePartialEvaluator"}

\* how often step x was taken
Count(steps, x) == Cardinality({i \in DOMAIN steps : steps[i] = x})

\* C21 as stated: execute, executeSources and executePartialEvaluator each
\* push exactly one execution context and pop it on every exit path, a parse
\* failure included, and leave the context stack as they found it.
C21_PushesOneContext ==
    [][llast'.op \in Executes =>
        /\ contextStack' = contextStack
        /\ Count(llast'.steps, "pushContext") = 1
        /\ Count(llast'.steps, "popContext") = 1]_vars

\* C21: execute, executeSources and executePartialEvaluator leave the context
\* stack as they found it on every exit path and pop every context they
\* push. execute and executeSources push exactly one context on every path;
\* executePartialEvaluator parses before it pushes, so it pushes none when
\* parsing fails and exactly one otherwise.
C21_StackRestored ==
    [][llast'.op \in Executes =>
        /\ contextStack' = contextStack
        /\ Count(llast'.steps, "pushContext") = Count(llast'.steps, "popContext")
        /\ contexts' = contexts + Count(llast'.steps, "pushContext")
        /\ Count(llast'.steps, "pushContext") =
              IF llast'.op = "executePartialEvaluator" /\ llast'.steps = <<"parse">>
              THEN 0 ELSE 1]_vars

\* an exception left executeSources from under a caller's context, and the
\* context pushed for the call is gone
C21_Witness ==
    /\ llast.op = "executeSources"
    /\ llast.channel = "throw"
    /\ llast.thing.cls = "Error"
    /\ Count(llast.steps, "popContext") = 1
    /\ Len(contextStack) = 1

Order == <<"currentLocation", "testTimeout", "evaluators", "evaluator", "savedCompletion",
           "fold">>

\* C22: evaluateAbstract takes its steps in the order location, deadline
\* check, evaluator lookup, evaluator call, fold of the saved completion. A
\* passed deadline ends the call before the lookup, whatever the node type,
\* and a node without evaluator gets its TypeError after the location was set
\* and the deadline was checked.
C22_FixedOrder ==
    llast.op = "evaluateAbstract" =>
        /\ llast.steps = SubSeq(Order, 1, Len(llast.steps))
        /\ Len(llast.steps) >= 2
        /\ llast.in.b.expired =>
              /\ llast.steps = SubSeq(Order, 1, 2)
              /\ llast.channel = "throw"
              /\ llast.thing.cls = "FatalError"
              /\ currentLocation = llast.in.ast.loc
        /\ (~llast.in.b.expired /\ llast.in.ast.type \notin evaluators) =>
              /\ llast.steps = SubSeq(Order, 1, 3)
              /\ llast.channel = "throw"
              /\ llast.thing.cls = "TypeError"
              /\ currentLocation = llast.in.ast.loc
        /\ (~llast.in.b.expired /\ llast.in.ast.type \in evaluators) =>
              Len(llast.steps) >= 4

\* all six steps were taken: the saved completion was folded into a value
C22_Witness ==
    /\ llast.op = "evaluateAbstract"
    /\ llast.steps = Order
    /\ llast.channel = "return"
    /\ llast.thing.cls = "PossiblyNormalCompletion"

\* what the evaluator threw, when it was invoked and threw
ThrownByEvaluator(cls) ==
    /\ ~llast.in.b.expired
    /\ llast.in.ast.type \in evaluators
    /\ llast.in.b.ev.channel = "throw"
    /\ llast.in.b.ev.thing.cls \in cls

\* C23: evaluateCompletion returns a simple abrupt completion that was thrown
\* as its result; a joined or possibly-normal completion is reported and a
\* new FatalError thrown; a host Error is thrown on as it is; any other
\* thrown value is wrapped in a new FatalError. Neither a joined nor a
\* possibly-normal completion is ever returned.
C23_TwoChannels ==
    llast.op = "evaluateCompletion" =>
        /\ ThrownByEvaluator({"ThrowCompletion", "BreakCompletion", "ContinueCompletion",
                              "ReturnCompletion"}) =>
              /\ llast.channel = "return"
              /\ llast.thing = llast.in.b.ev.thing
        /\ ThrownByEvaluator({"JoinedAbruptCompletions", "PossiblyNormalCompletion"}) =>
              /\ llast.channel = "throw"
              /\ llast.thing.cls = "FatalError" /\ llast.thing.id = "new"
              /\ handled # <<>> /\ handled[Len(handled)].code = "PP0001"
        /\ ThrownByEvaluator(Errors) =>
              /\ llast.channel = "throw"
              /\ llast.thing = llast.in.b.ev.thing
        /\ ThrownByEvaluator({"String"}) =>
              /\ llast.channel = "throw"
              /\ llast.thing.cls = "FatalError" /\ llast.thing.id = "new"
              /\ llast.thing.of = <<llast.in.b.ev.thing.cls, llast.in.b.ev.thing.id>>
        /\ llast.channel = "return" =>
              llast.thing.cls \notin {"JoinedAbruptCompletions", "PossiblyNormalCompletion"}

\* the evaluator threw a joined completion and a FatalError came out
C23_Witness ==
    /\ llast.op = "evaluateCompletion"
    /\ ThrownByEvaluator({"JoinedAbruptCompletions"})
    /\ llast.channel = "throw"
    /\ llast.thing.cls = "FatalError"

\* the message m has one of the three fixed strings in it
IsReferenceErrorMessage(m) ==
    \E k \in 1..3 : \E i \in 1..Len(m) :
        /\ i + Len(referenceErrors[k]) - 1 <= Len(m)
        /\ \A j \in 1..Len(referenceErrors[k]) : m[i + j - 1] = referenceErrors[k][j]

\* C24: parse turns a parser SyntaxError into a thrown throw completion that
\* carries a ReferenceError object when the message has one of the three
\* fixed strings in it and a SyntaxError object otherwise; any other
\* exception is thrown on as it is; on success the location source of every
\* node is the filename.
C24_ParseFailures ==
    llast.op = "parse" =>
        LET parsed == llast.in.parsed
        IN  /\ (parsed.channel = "throw" /\ parsed.thing.cls = "SyntaxError") =>
                  /\ llast.channel = "throw"
                  /\ llast.thing.cls = "ThrowCompletion"
                  /\ llast.thing.of.message = parsed.thing.of
                  /\ llast.thing.of.ctor =
                        IF IsReferenceErrorMessage(parsed.thing.of)
                        THEN "ReferenceError" ELSE "SyntaxError"
            /\ (parsed.channel = "throw" /\ parsed.thing.cls # "SyntaxError") =>
                  /\ llast.channel = "throw"
                  /\ llast.thing = parsed.thing
            /\ llast.channel = "return" =>
                  /\ parsed.channel = "return"
                  /\ Len(llast.thing) = Len(parsed.thing)
                  /\ \A i \in 1..Len(llast.thing) :
                        llast.thing[i].loc.source = llast.in.filename

\* a message that has one of the fixed strings inside it, not at its start,
\* became a ReferenceError
C24_Witness ==
    /\ llast.op = "parse"
    /\ llast.channel = "throw"
    /\ llast.thing.cls = "ThrowCompletion"
    /\ llast.thing.of.ctor = "ReferenceError"
    /\ llast.in.parsed.thing.of[1] = "unknown:"

\* C25: the this-binding status changes only from uninitialized to
\* initialized and only in a BindThisValue that returns; BindThisValue on an
\* initialized record throws a ReferenceError and leaves status and value as
\* they were; GetThisBinding throws a ReferenceError exactly when the status
\* is uninitialized.
C25_ThisBoundOnce ==
    [][/\ (ThisBindingStatus' # ThisBindingStatus \/ ThisValue' # ThisValue) =>
              /\ ThisBindingStatus = "uninitialized"
              /\ ThisBindingStatus' = "initialized"
              /\ last'.op = "BindThisValue"
              /\ last'.outcome = "normal"
              /\ ThisValue' = last'.V
       /\ (last'.op = "BindThisValue" /\ ThisBindingStatus = "initialized") =>
              /\ last'.outcome = "ReferenceError"
              /\ ThisValue' = ThisValue
              /\ ThisBindingStatus' = "initialized"
       /\ last'.op = "GetThisBinding" =>
              /\ (last'.outcome = "ReferenceError") <=> (ThisBindingStatus = "uninitialized")
              /\ ThisBindingStatus = "initialized" =>
                    (last'.outcome = "normal" /\ last'.ret = ThisValue)]_vars

\* a second BindThisValue was refused
C25_Witness ==
    /\ last.op = "BindThisValue"
    /\ last.outcome = "ReferenceError"
    /\ ThisBindingStatus = "initialized"
    /\ ThisValue # last.V

\* ------------------------------------------------------------------------
\* Properties of the generator body
\* ------------------------------------------------------------------------

Emits == {"emitGlobalAssignment", "emitGlobalDelete", "emitPropertyAssignment",
          "emitDefineProperty", "emitPropertyDelete", "emitCall", "emitVoidExpression",
          "emitConsoleLog", "emitInvariant"}

\* C26: each of the nine emit operations appends exactly one entry, built
\* from its arguments, at the end of the body, and no generator operation
\* removes, replaces or reorders an entry that is in the body.
C26_AppendOnly ==
    [][/\ Len(generator'.body) >= Len(generator.body)
       /\ SubSeq(generator'.body, 1, Len(generator.body)) = generator.body
       /\ glast'.op \in Emits =>
              /\ Len(generator'.body) = Len(generator.body) + 1
              /\ LET entry == generator'.body[Len(generator'.body)]
                 IN  /\ entry.declared = NoDeclaration
                     /\ glast'.op # "emitDefineProperty" => entry.args = glast'.args
                     /\ glast'.op = "emitDefineProperty" =>
                           entry.args \in {glast'.args, <<glast'.args[1], glast'.args[2]>>}]_vars

\* an emit operation ran on a body that already held two entries
C26_Witness ==
    /\ glast.op = "emitDefineProperty"
    /\ Len(generator.body) = 3
    /\ generator.body[3].statement = "defineProperty"
    /\ generator.body[1].statement = "var"

\* ------------------------------------------------------------------------
\* More properties of the declarative environment record
\* ------------------------------------------------------------------------

\* the operations of the record, as opposed to the realm's rollback
RecordOps == DeclarativeOps \cup {"GetBindingValue", "BindThisValue", "GetThisBinding"}

\* C27: SetMutableBinding on an initialized immutable binding leaves the
\* binding and the record as they are; it throws a TypeError exactly when the
\* caller's S is true or the binding is strict, and returns empty otherwise.
\* A binding is strict exactly when CreateImmutableBinding made it with S true.
C27_ImmutableNeverWritten ==
    [][/\ (/\ last'.op = "SetMutableBinding"
           /\ last'.N \in DOMAIN bindings
           /\ heap[bindings[last'.N]].initialized
           /\ ~heap[bindings[last'.N]].mutable) =>
              /\ bindings' = bindings
              /\ heap' = heap
              /\ modLog' = modLog
              /\ (last'.outcome = "TypeError") <=> (last'.S \/ heap[bindings[last'.N]].strict)
              /\ last'.outcome # "TypeError" => (last'.outcome = "normal" /\ last'.ret = Empty)
       /\ \A id \in 1..Len(heap) : heap'[id].strict = heap[id].strict
       /\ \A id \in (Len(heap) + 1)..Len(heap') :
              heap'[id].strict = (last'.op = "CreateImmutableBinding" /\ last'.S)]_vars

\* a non-strict write to a strict immutable binding was refused
C27_Witness ==
    /\ last.op = "SetMutableBinding"
    /\ ~last.S
    /\ last.outcome = "TypeError"
    /\ last.N \in DOMAIN bindings
    /\ heap[bindings[last.N]].strict
    /\ heap[bindings[last.N]].value # last.V

\* C28: no operation of the record takes the initialized flag of a binding
\* that stays in the record from true to false; InitializeBinding on an
\* initialized binding fails its assertion and on an uninitialized one
\* initializes it; SetMutableBinding on an uninitialized binding throws a
\* ReferenceError and leaves it uninitialized.
C28_InitializedOnce ==
    [][last'.op \in RecordOps =>
        /\ \A N \in DOMAIN bindings \cap DOMAIN bindings' :
              /\ bindings'[N] = bindings[N]
              /\ heap[bindings[N]].initialized => heap'[bindings[N]].initialized
        /\ (last'.op = "InitializeBinding" /\ last'.N \in DOMAIN bindings) =>
              IF heap[bindings[last'.N]].initialized
              THEN /\ last'.outcome = "InvariantViolation"
                   /\ heap' = heap /\ bindings' = bindings
              ELSE /\ last'.outcome = "normal"
                   /\ heap'[bindings[last'.N]].initialized
        /\ (/\ last'.op = "SetMutableBinding"
            /\ last'.N \in DOMAIN bindings
            /\ ~heap[bindings[last'.N]].initialized) =>
              /\ last'.outcome = "ReferenceError"
              /\ heap' = heap /\ bindings' = bindings]_vars

\* a second InitializeBinding of a binding failed
C28_Witness ==
    /\ last.op = "InitializeBinding"
    /\ last.outcome = "InvariantViolation"
    /\ last.N \in DOMAIN bindings
    /\ heap[bindings[last.N]].initialized
    /\ heap[bindings[last.N]].value # last.V

\* C29: DeleteBinding returns false and changes nothing for a binding that is
\* not deletable, and returns true and removes the binding for one that is.
\* A binding is deletable exactly when CreateMutableBinding made it with D
\* true, directly or in a non-strict SetMutableBinding of a missing name, and
\* a binding leaves the record only in a DeleteBinding of a deletable binding.
C29_OnlyDeletableRemoved ==
    [][/\ (last'.op = "DeleteBinding" /\ last'.N \in DOMAIN bindings) =>
              IF heap[bindings[last'.N]].deletable
              THEN /\ last'.outcome = "normal" /\ last'.ret = TRUE
                   /\ ~HasBinding(EnvState', last'.N)
              ELSE /\ last'.outcome = "normal" /\ last'.ret = FALSE
                   /\ bindings' = bindings /\ heap' = heap /\ modLog' = modLog
       /\ \A N \in DOMAIN bindings \ DOMAIN bindings' :
              /\ last'.op = "DeleteBinding" /\ last'.N = N
              /\ heap[bindings[N]].deletable
       /\ \A id \in 1..Len(heap) : heap'[id].deletable = heap[id].deletable
       /\ \A id \in (Len(heap) + 1)..Len(heap') :
              heap'[id].deletable =
                 \/ last'.op = "CreateMutableBinding" /\ last'.S
                 \/ last'.op = "SetMutableBinding" /\ ~last'.S]_vars

\* DeleteBinding refused to remove a mutable binding made with D false
C29_Witness ==
    /\ last.op = "DeleteBinding"
    /\ last.outcome = "normal"
    /\ last.ret = FALSE
    /\ last.N \in DOMAIN bindings
    /\ heap[bindings[last.N]].mutable
    /\ heap[bindings[last.N]].initialized

\* ------------------------------------------------------------------------
\* Properties of the global environment record
\* ------------------------------------------------------------------------

\* what the declarative record alone does with the call recorded in op
OnDeclarativeRecordAlone(op) ==
    IF op.op = "InitializeBinding" THEN InitializeBinding(DeclarativeRecord, op.N, op.V)
    ELSE IF op.op = "SetMutableBinding"
    THEN SetMutableBinding(DeclarativeRecord, op.N, op.V, op.S)
    ELSE IF op.op = "GetBindingValue" THEN GetBindingValue(DeclarativeRecord, op.N, op.S)
    ELSE DeleteBinding(DeclarativeRecord, op.N)

\* C30: when the declarative record has a binding for N, InitializeBinding,
\* SetMutableBinding, GetBindingValue and DeleteBinding of the global record
\* do what the declarative record does and leave the global object and the
\* var names as they are, whether or not the object has a property N;
\* HasBinding(N) is true exactly when one of the two parts has N.
C30_DeclarativeShadowsObject ==
    [][/\ (/\ xlast'.op \in {"InitializeBinding", "SetMutableBinding", "GetBindingValue",
                             "DeleteBinding"}
           /\ xlast'.N \in DOMAIN DeclarativeRecord.bindings) =>
              /\ globalObject' = globalObject
              /\ VarNames' = VarNames
              /\ DeclarativeRecord' = OnDeclarativeRecordAlone(xlast').st
              /\ xlast'.outcome = OnDeclarativeRecordAlone(xlast').outcome
              /\ xlast'.outcome = "normal" => xlast'.ret = OnDeclarativeRecordAlone(xlast').ret
       /\ xlast'.op = "HasBinding" =>
              xlast'.ret = (\/ xlast'.N \in DOMAIN DeclarativeRecord.bindings
                            \/ globalObject.props[xlast'.N].present
                            \/ xlast'.N \in globalObject.inherited)]_vars

\* a write went to the declarative binding for a name that the global
\* object has as a writable own property, and the property kept its value
C30_Witness ==
    /\ xlast.op = "SetMutableBinding"
    /\ xlast.outcome = "normal"
    /\ xlast.N \in DOMAIN DeclarativeRecord.bindings
    /\ DeclarativeRecord.heap[DeclarativeRecord.bindings[xlast.N]].value = xlast.V
    /\ globalObject.props[xlast.N].present
    /\ globalObject.props[xlast.N].writable
    /\ globalObject.props[xlast.N].value = "host"

\* the calls that declare a global var name
DeclaresVarName == {"CreateGlobalVarBinding", "CreateGlobalFunctionBinding"}

\* no name occurs twice in the var-name list
NoDuplicates(varNames) ==
    \A i, j \in 1..Len(varNames) : varNames[i] = varNames[j] => i = j

\* a name leaves the var-name list only by a DeleteBinding of that name
\* that returned true, and HasVarDeclaration answers by the list
DeclaredUntilDeleted ==
    /\ \A N \in Names :
          Contains(VarNames, N) /\ ~Contains(VarNames', N) =>
              xlast'.op = "DeleteBinding" /\ xlast'.N = N /\ xlast'.ret = TRUE
    /\ xlast'.op = "HasVarDeclaration" => xlast'.ret = Contains(VarNames, xlast'.N)

\* C31 as stated: N is in the var-name list after every call of
\* CreateGlobalVarBinding(N) or CreateGlobalFunctionBinding(N).
C31_DeclaredAfterEveryCall ==
    [][/\ NoDuplicates(VarNames')
       /\ xlast'.op \in DeclaresVarName => Contains(VarNames', xlast'.N)
       /\ DeclaredUntilDeleted]_vars

\* C31: the var-name list never holds a name twice; after a
\* CreateGlobalVarBinding(N) or CreateGlobalFunctionBinding(N) that completed
\* normally N is in the list, and it stays there, with HasVarDeclaration(N)
\* true, until a DeleteBinding(N) returns true.
C31_VarNamesDeclaredOnce ==
    [][/\ NoDuplicates(VarNames')
       /\ (xlast'.op \in DeclaresVarName /\ xlast'.outcome = "normal") =>
              Contains(VarNames', xlast'.N)
       /\ DeclaredUntilDeleted]_vars

\* a name declared twice is once in the list, and a deletion that failed
\* left it there
C31_Witness ==
    /\ nxops = 3
    /\ xlast.op = "DeleteBinding"
    /\ xlast.ret = FALSE
    /\ VarNames = <<xlast.N>>
    /\ globalObject.props[xlast.N].present

\* C32: without a declarative binding for N, DeleteBinding(N) on the global
\* record takes N out of the var-name list exactly when the global object
\* has an own property N and deleting it succeeds, and then returns the
\* status of that deletion; with no own property N it returns true and
\* changes nothing.
C32_GlobalDelete ==
    [][(xlast'.op = "DeleteBinding" /\ xlast'.N \notin DOMAIN DeclarativeRecord.bindings) =>
          LET N == xlast'.N
              own == globalObject.props[N].present
              deleted == Delete(globalObject, N)
          IN  /\ DeclarativeRecord' = DeclarativeRecord
              /\ xlast'.outcome = "normal"
              /\ ~own => /\ xlast'.ret = TRUE
                         /\ globalObject' = globalObject
                         /\ VarNames' = VarNames
              /\ own => /\ xlast'.ret = deleted.ret
                        /\ globalObject' = deleted.O
              /\ (own /\ deleted.ret) =>
                     VarNames' = SelectSeq(VarNames, LAMBDA x : x # N)
              /\ ~(own /\ deleted.ret) => VarNames' = VarNames]_vars

\* a declared name was deleted together with its property, and the other
\* declared name stayed
C32_Witness ==
    /\ nxops = 3
    /\ xlast.op = "DeleteBinding"
    /\ xlast.ret = TRUE
    /\ xlast.N \notin DOMAIN DeclarativeRecord.bindings
    /\ ~globalObject.props[xlast.N].present
    /\ Len(VarNames) = 1
    /\ VarNames[1] # xlast.N

\* ------------------------------------------------------------------------
\* Further properties of the for-in evaluator
\* ------------------------------------------------------------------------

\* C33: a BreakCompletion without a target label raised while the statement
\* is evaluated ends the statement normally with the break's value, or
\* undefined if that value is empty; a BreakCompletion with a label and every
\* other abrupt completion or error leaves the statement as it was raised.
C33_ConsumesUnlabeledBreak ==
    [][nstmts' = nstmts + 1 =>
          LET raised == ForInTry(ForState, flast'.head, flast'.keyResult, flast'.body)
          IN  /\ flast'.outcome # "BreakCompletion"
              /\ ForState' = raised.st
              /\ raised.outcome = "BreakCompletion" =>
                     /\ flast'.outcome = "Value"
                     /\ flast'.value = IF raised.value = Empty THEN Undefined
                                       ELSE raised.value
              /\ raised.outcome # "BreakCompletion" =>
                     /\ flast'.outcome = raised.outcome
                     /\ flast'.value = raised.value
              /\ (/\ flast'.evaluated > 0
                  /\ ~flast'.keyResult.abstract
                  /\ ~isPartialObject(ForState, flast'.keyResult)) =>
                     /\ flast'.body.kind = "break" =>
                            flast'.outcome = "Value" /\ flast'.value = Undefined
                     /\ flast'.body.kind = "breakValue" =>
                            flast'.outcome = "Value" /\ flast'.value = "v1"
                     /\ flast'.body.kind = "breakLabel" =>
                            flast'.outcome = "BreakCompletion(label)"
                     /\ flast'.body.kind = "throw" =>
                            flast'.outcome = "ThrowCompletion" /\ flast'.value = "v1"]_vars

\* a loop over a concrete object left by a break that carried a value
C33_Witness ==
    /\ flast.body.kind = "breakValue"
    /\ ~flast.keyResult.abstract
    /\ ~isPartialObject(ForState, flast.keyResult)
    /\ flast.evaluated = 1
    /\ flast.outcome = "Value"
    /\ flast.value = "v1"

\* the statement takes the residual path: a var head over a partial and
\* simple object
Residual(head, ob) ==
    /\ head \in {"var", "varPattern"}
    /\ isPartialObject(ForState, ob)
    /\ isSimpleObject(ForState, ob)

\* C34: emitResidualLoopIfSafe leaves the running context's
\* lexicalEnvironment as it was on entry, whether the loop is accepted, the
\* body is rejected or evaluating the body raises; the block environment
\* with the loop variable is not current afterwards.
C34_EnvironmentRestored ==
    [][(nstmts' = nstmts + 1 /\ Residual(flast'.head, flast'.keyResult)) =>
          /\ lexicalEnvironment' = lexicalEnvironment
          /\ \A names \in {<<>>, <<"k">>, <<"k", "j">>} :
                lexicalEnvironment' # Append(lexicalEnvironment, [names |-> names])]_vars

\* evaluating the body raised FatalError inside the block environment, and
\* the environment of before is current
C34_Witness ==
    /\ flast.head = "var"
    /\ flast.evaluated = 1
    /\ flast.outcome = "FatalError"
    /\ diagnostics # <<>>
    /\ diagnostics[Len(diagnostics)].code = "introspection"
    /\ lexicalEnvironment = <<[names |-> <<"global">>]>>

\* C35: when the body of a for-in over a partial and simple object is
\* rejected, no entry is appended to the generator, no property of any object
\* is written and no simple or partial flag changes; one PP0013 diagnostic is
\* reported and FatalError is thrown.
C35_RejectionLeavesNoEffect ==
    [][(/\ nstmts' = nstmts + 1
        /\ Residual(flast'.head, flast'.keyResult)
        /\ Rejected(ForState, flast'.head, flast'.keyResult, flast'.body)) =>
          /\ genBody' = genBody
          /\ \A o \in Objects :
                /\ objs'[o].props = objs[o].props
                /\ objs'[o].simple = objs[o].simple
                /\ objs'[o].partial = objs[o].partial
          /\ Len(diagnostics') = Len(diagnostics) + 1
          /\ SubSeq(diagnostics', 1, Len(diagnostics)) = diagnostics
          /\ diagnostics'[Len(diagnostics')].code = "PP0013"
          /\ flast'.outcome = "FatalError"
          /\ ~flast'.accepted]_vars

\* t[k] = c was rejected: the target it names is still not partial
C35_Witness ==
    /\ flast.head = "var"
    /\ flast.body.kind = "const"
    /\ flast.evaluated = 1
    /\ flast.outcome = "FatalError"
    /\ diagnostics # <<>>
    /\ diagnostics[Len(diagnostics)].code = "PP0013"
    /\ objs[flast.body.target].simple
    /\ ~objs[flast.body.target].partial
    /\ genBody = <<>>

\* C37: for every var head of a for-in over a partial and simple object
\* exactly one name is bound in the block environment, and neither the
\* assertion in the binding loop nor the one on boundName fails.
C37_OneNameBound ==
    [][(nstmts' = nstmts + 1 /\ Residual(flast'.head, flast'.keyResult)) =>
          LET blockEnv == NewDeclarativeEnvironment(lexicalEnvironment)
              bound == BindBoundNames([ForState EXCEPT !.lexicalEnvironment = blockEnv],
                                      BoundNames(flast'.head), Undefined)
              envRec == bound.st.lexicalEnvironment[Len(blockEnv)]
          IN  /\ bound.ok
              /\ bound.boundName # Undefined
              /\ Len(envRec.names) = 1
              /\ flast'.outcome # "InvariantViolation"]_vars

\* C38: emitResidualLoopIfSafe leaves the iterated source object partial on
\* every exit, whether enumerating its known properties and copying them to
\* the target complete or raise.
C38_SourcePartialOnEveryExit ==
    [][(nstmts' = nstmts + 1 /\ Residual(flast'.head, flast'.keyResult)) =>
          isPartialObject(ForState', flast'.keyResult)]_vars

\* ------------------------------------------------------------------------
\* Further properties of the prelude and of evaluateAbstract
\* ------------------------------------------------------------------------

\* C39: in the prelude the declaration of a reference comes after the
\* declaration of the reference its initializer uses (the reference to the
\* global object before a member of it, the reference for the prefix of a
\* dotted path before the path), and every memoized key has exactly one
\* declaration in the prelude.
C39_PreludeOrdered ==
    LET prelude == preludeGenerator.prelude
        memoizedRefs == preludeGenerator.memoizedRefs
    IN  /\ \A i \in 1..Len(prelude) :
              prelude[i].init.type = "MemberExpression" =>
                  \E j \in 1..(i - 1) : prelude[j].ref = prelude[i].init.object
        /\ \A m \in 1..Len(memoizedRefs) :
              Cardinality({i \in 1..Len(prelude) : prelude[i].ref = memoizedRefs[m].value}) = 1
        /\ \A m, n \in 1..Len(memoizedRefs) :
              memoizedRefs[m].key = memoizedRefs[n].key => m = n
        /\ Len(prelude) = Len(memoizedRefs)

\* Object.prototype was memoized: this, then the member Object of it, then
\* the member prototype of that
C39_Witness ==
    /\ Len(preludeGenerator.prelude) = 3
    /\ preludeGenerator.prelude[1].init = ThisExpression
    /\ preludeGenerator.prelude[2].init =
           MemberExpression(preludeGenerator.prelude[1].ref, "Object")
    /\ preludeGenerator.prelude[3].init =
           MemberExpression(preludeGenerator.prelude[2].ref, "prototype")
    /\ MapHas(preludeGenerator.memoizedRefs, "Object.prototype")

\* C40: when evaluateAbstract returns, the running context has no saved
\* possibly-normal completion. A saved completion that is there after the
\* evaluator returned is updated with the evaluator's value, or composed with
\* the evaluator's possibly-normal completion, returned in its place and
\* cleared; if the evaluator returned anything else, an introspection error
\* is reported and FatalError is thrown.
C40_SavedCompletionFolded ==
    [][llast'.op = "evaluateAbstract" =>
          LET n == Len(contextStack)
              ev == llast'.in.b.ev
              returned == /\ ~llast'.in.b.expired
                          /\ llast'.in.ast.type \in evaluators
                          /\ ev.channel = "return"
                          /\ n > 0
              present == IF ev.saves THEN SavedCompletion ELSE contextStack[n].savedCompletion
          IN  /\ llast'.channel = "return" =>
                     /\ returned
                     /\ Len(contextStack') = n
                     /\ contextStack'[n].savedCompletion = Nothing
              /\ (returned /\ present = Nothing) =>
                     llast'.channel = "return" /\ llast'.thing = ev.thing
              /\ (returned /\ present # Nothing /\ ev.thing.cls = "Value") =>
                     /\ llast'.channel = "return"
                     /\ llast'.thing = [present EXCEPT !.of = <<ev.thing.id>>]
              /\ (returned /\ present # Nothing
                           /\ ev.thing.cls = "PossiblyNormalCompletion") =>
                     /\ llast'.channel = "return"
                     /\ llast'.thing = Thing("PossiblyNormalCompletion", "composed",
                                             <<present.id, ev.thing.id>>)
              /\ (returned /\ present # Nothing
                           /\ ev.thing.cls \notin {"Value", "PossiblyNormalCompletion"}) =>
                     /\ llast'.channel = "throw"
                     /\ llast'.thing.cls = "FatalError"
                     /\ handled' = Append(handled, [code |-> "PP0001",
                                                    severity |-> "FatalError"])]_vars

\* the present completion was composed with the evaluator's possibly-normal
\* completion and is gone from the running context
C40_Witness ==
    /\ llast.op = "evaluateAbstract"
    /\ llast.channel = "return"
    /\ llast.thing = Thing("PossiblyNormalCompletion", "composed", <<"saved", "p">>)
    /\ contextStack # <<>>
    /\ contextStack[Len(contextStack)].savedCompletion = Nothing

====
